---- MODULE Spec2Model ----
(***************************************************************************)
(* Model of the Cambridge restaurant planner's workflow coordinator:       *)
(* run_restaurant_workflow (src/workflow.py), the agents and their         *)
(* hand-offs (src/agents.py) and the callers (src/main.py, src/gui.py).    *)
(*                                                                         *)
(* The language-model call, the places service, the calendar file and the  *)
(* file system are the environment: what they return is an input of the    *)
(* action that consumes it.                                                *)
(***************************************************************************)
EXTENDS Integers, Sequences, FiniteSets, TLC

VARIABLES
    pc,        \* position of the caller in run_restaurant_workflow
    run,       \* number of runs started in this process
    args,      \* the arguments of the current call of run_restaurant_workflow
    ctxs,      \* the ContextVariables objects, by the run that created them
    agents,    \* the three ConversableAgent objects of the current run
    cache,     \* what ./.cache is on disk
    speaker,   \* group chat: the agent whose turn it is
    phase,     \* group chat: "ready" | "executing" (the stage's model call is in flight)
    rounds,    \* group chat: agent turns taken
    replies,   \* the message each stage produced in this run
    used,      \* the system message in effect when each stage's model call was issued
    result,    \* what run_restaurant_workflow returned
    trace,     \* the steps of the current run, in order
    env,       \* what the calendar file and the places service returned in this run
    par,       \* two runs in progress at once: their coroutines, agents and Contexts
    fn         \* a call of a function of the console front end or the calendar reader

vars == <<pc, run, args, ctxs, agents, cache, speaker, phase, rounds, replies, used,
          result, trace, env, par, fn>>

\* ------------------------------------------------------------------ bounds

\* Runs of run_restaurant_workflow in one process (SpecRuns).
MaxRuns == 2
\* Length of the selected_meals list of a stage's structured reply.
MaxSelected == 1
\* Entries in the calendar file.
MaxEntries == 2
\* Places the places service returns under one subcategory.
MaxPlaces == 1
\* Comma-separated tokens in one line typed at the meal prompt.
MaxTokens == 2
\* Lines typed at the meal prompt.
MaxLines == 2
\* Words in the description of a calendar entry.
MaxWords == 3
\* Positional arguments in a direct call of a check function or a handler.
MaxArgs == 4
\* Clicks on the GUI's plan button.
MaxClicks == 3

\* ------------------------------------------------------------ Python values

None == [kind |-> "None"]
Str(s) == [kind |-> "str", v |-> s]
List(items) == [kind |-> "list", items |-> items]

\* Python truthiness of None, a str or a list.
Truthy(x) ==
    CASE x.kind = "None" -> FALSE
      [] x.kind = "str" -> x.v # ""
      [] x.kind = "list" -> x.items # <<>>
      [] OTHER -> TRUE

Meals == {"breakfast", "lunch", "dinner"}
MealOrder == <<"breakfast", "lunch", "dinner">>

RECURSIVE SeqsUpTo(_, _)
SeqsUpTo(S, n) ==
    IF n = 0 THEN {<<>>}
    ELSE LET shorter == SeqsUpTo(S, n - 1)
         IN shorter \cup {Append(s, x) : s \in {t \in shorter : Len(t) = n - 1}, x \in S}

Range(s) == {s[i] : i \in DOMAIN s}

\* needle in hay, for str and for sequences of characters
Contains(hay, needle) ==
    \E i \in 1..(Len(hay) - Len(needle) + 1) : SubSeq(hay, i, i + Len(needle) - 1) = needle

\* ----------------------------------------------------------------- context

EmptyDict == [m \in {} |-> None]

\* An update that merges a dict value into the dict the key already holds.
Update_deep(c, u) ==
    [k \in (DOMAIN c) \cup (DOMAIN u) |->
        IF k \in DOMAIN u
        THEN IF k \in DOMAIN c /\ k = "selected_restaurants"
             THEN [m \in (DOMAIN c[k]) \cup (DOMAIN u[k]) |->
                      IF m \in DOMAIN u[k] THEN u[k][m] ELSE c[k][m]]
             ELSE u[k]
        ELSE c[k]]

\* ContextVariables.update: a shallow merge.
Update(c, u) ==
    [k \in (DOMAIN c) \cup (DOMAIN u) |-> IF k \in DOMAIN u THEN u[k] ELSE c[k]]

\* ContextVariables.get(key, default).
Get(c, k, default) == IF k \in DOMAIN c THEN c[k] ELSE default

NoContext == [kind |-> "NoContext"]

\* A Context that starts with a placeholder plan instead of None.
init_workflow_context_with_plan ==
    [restaurant_count |-> 0,
     restaurant_categories |-> <<>>,
     food_preferences |-> [kind |-> "str", v |-> "None"],
     constraints |-> [kind |-> "str", v |-> "None"],
     requested_meals |-> <<"breakfast", "lunch", "dinner">>,
     restaurants_with_locations |-> <<>>,
     selected_restaurants |-> EmptyDict,
     route_plan |-> [kind |-> "RoutePlan", route_overview |-> "", selected_meals |-> <<>>],
     calendar_locations |-> <<>>,
     existing_locations |-> [kind |-> "list", items |-> <<>>]]

init_workflow_context ==
    [restaurant_count |-> 0,
     restaurant_categories |-> <<>>,
     food_preferences |-> Str("None"),
     constraints |-> Str("None"),
     requested_meals |-> <<"breakfast", "lunch", "dinner">>,
     restaurants_with_locations |-> <<>>,
     selected_restaurants |-> EmptyDict,
     route_plan |-> None,
     calendar_locations |-> <<>>,
     existing_locations |-> List(<<>>)]

\* ------------------------------------------------------------------ agents

Selector == "restaurant_selector"
Planner == "route_planner"
Companion == "companion"
AgentNames == {Selector, Planner, Companion}
Terminate == "TerminateTarget"

\* The static system messages the agents are created with.
StaticMessage(a) ==
    CASE a = Selector -> [template |-> "SELECTOR_MESSAGE"]
      [] a = Planner -> [template |-> "PLANNER_MESSAGE"]
      [] a = Companion -> [template |-> "COMPANION_MESSAGE"]

\* create_selector_agent, create_planner_agent, create_companion_agent: a new
\* agent holds the static message, no conversation and no registered reply
\* function; update_state is the template of its UpdateSystemMessage hook.
NewAgent(a) ==
    [system_message |-> StaticMessage(a),
     update_state |-> StaticMessage(a),
     history |-> 0,
     reply_funcs |-> <<>>]

create_agents == [a \in AgentNames |-> NewAgent(a)]

\* Hand-offs in which the planner hands back to the selector.
AfterWork_back(a) ==
    CASE a = "restaurant_selector" -> "route_planner"
      [] a = "route_planner" -> "restaurant_selector"
      [] a = "companion" -> "TerminateTarget"

\* setup_agent_handoffs: the after-work target of each agent.
AfterWork(a) ==
    CASE a = Selector -> Planner
      [] a = Planner -> Companion
      [] a = Companion -> Terminate

\* setup_agent_handoffs: the agents that carry an LLM condition, and its target.
HasLlmCondition(a) == a \in {Selector, Planner}
LlmConditionTarget(a) ==
    CASE a = Selector -> Planner
      [] a = Planner -> Companion

\* ConversableAgent.reset as the run uses it: the conversation is cleared; the
\* system message and the registered reply functions stay.
ResetAgent(ag) == [ag EXCEPT !.history = 0]

\* -------------------------------------------------------------- file system

CacheStates == {"absent", "dir"}

\* A clear_cache that reports the folder and leaves it.
clear_cache_keep(c) == c

\* clear_cache: os.path.isdir, then shutil.rmtree.
clear_cache(c) == IF c = "dir" THEN "absent" ELSE c

\* ------------------------------------------------------------ stage replies

Text == [kind |-> "text"]
Handoff == [kind |-> "handoff"]
NoReply == [kind |-> "NoReply"]
NoMessage == [template |-> "NoMessage"]

\* models.RestaurantInfo
Venue(m) == [kind |-> "RestaurantInfo", name |-> m, type |-> "cafe"]

MealLists == SeqsUpTo(Meals, MaxSelected)

\* models.RestaurantSelection: every value the schema admits, within the bounds.
RestaurantSelections ==
    {[kind |-> "RestaurantSelection",
      selected_meals |-> s,
      breakfast_restaurant |-> IF "breakfast" \in nn THEN Venue("Fitzbillies") ELSE None,
      lunch_restaurant |-> IF "lunch" \in nn THEN Venue("The Eagle") ELSE None,
      dinner_restaurant |-> IF "dinner" \in nn THEN Venue("Midsummer House") ELSE None,
      selection_reasoning |-> "reasoning"] :
        s \in MealLists, nn \in {x \in SUBSET Meals : Cardinality(x) <= MaxSelected}}

\* models.RoutePlan (the route segments and travel times are not read by the code).
RoutePlans ==
    {[kind |-> "RoutePlan", route_overview |-> o, selected_meals |-> s] :
        o \in {"", "overview"}, s \in MealLists}

\* models.CompanionOutput
CompanionOutputs ==
    {[kind |-> "CompanionOutput", greeting |-> g, day_overview |-> "overview",
      restaurant_highlights |-> "highlights", route_guidance |-> "guidance",
      closing_remarks |-> "bye"] : g \in {"", "hello"}}

\* What the model call of a stage may return: the agent's response_format, free
\* text, or (for an agent with an LLM condition) the hand-off call.
StageReplies(a) ==
    (CASE a = Selector -> RestaurantSelections
       [] a = Planner -> RoutePlans
       [] a = Companion -> CompanionOutputs)
    \cup {Text} \cup (IF HasLlmCondition(a) THEN {Handoff} ELSE {})

AllReplies == UNION {StageReplies(a) : a \in AgentNames}

\* The positional arguments the framework passes to a trigger and its reply
\* function: (sender) or (sender, recipient, message).
ArgShapes == {1, 3}

\* ------------------------------------------------------ instruction builder

Capitalize(m) ==
    CASE m = "breakfast" -> "Breakfast"
      [] m = "lunch" -> "Lunch"
      [] m = "dinner" -> "Dinner"

\* format_restaurant_details: one line per entry of the dict, in the dict's
\* (insertion) order, which is breakfast, lunch, dinner.
RECURSIVE DetailLines(_, _)
DetailLines(order, selected_restaurants) ==
    IF order = <<>> THEN <<>>
    ELSE LET meal == Head(order)
             rest == DetailLines(Tail(order), selected_restaurants)
         IN IF meal \in DOMAIN selected_restaurants
               /\ selected_restaurants[meal] # None
            THEN <<[meal |-> Capitalize(meal),
                    name |-> selected_restaurants[meal].name,
                    type |-> selected_restaurants[meal].type]>> \o rest
            ELSE rest

\* A formatter that writes a line for every meal, with or without a venue.
format_restaurant_details_all(selected_restaurants) ==
    [i \in DOMAIN MealOrder |->
        IF MealOrder[i] \in DOMAIN selected_restaurants
        THEN [meal |-> Capitalize(MealOrder[i]),
              name |-> selected_restaurants[MealOrder[i]].name,
              type |-> selected_restaurants[MealOrder[i]].type]
        ELSE [meal |-> Capitalize(MealOrder[i]), name |-> "None", type |-> "None"]]

format_restaurant_details(selected_restaurants) ==
    DetailLines(MealOrder, selected_restaurants)

\* DYNAMIC_SELECTOR_MESSAGE.format(...)
SelectorMessage(c) ==
    [template |-> "DYNAMIC_SELECTOR_MESSAGE",
     food_preferences |-> Get(c, "food_preferences", None),
     constraints |-> Get(c, "constraints", None),
     requested_meals |-> Get(c, "requested_meals", None),
     restaurant_count |-> Get(c, "restaurant_count", None),
     restaurant_categories |-> Get(c, "restaurant_categories", <<>>),
     restaurants_with_locations |-> Get(c, "restaurants_with_locations", None),
     existing_locations |-> Get(c, "existing_locations", Str("None"))]

\* A rendering that takes the meals from the Context's requested_meals.
PlannerMessage_requested(selected_meals, selected_restaurants, c) ==
    [template |-> "DYNAMIC_PLANNER_MESSAGE",
     selected_meals |-> Get(c, "requested_meals", <<>>),
     restaurant_details |-> format_restaurant_details(selected_restaurants),
     existing_locations |-> Get(c, "existing_locations", Str("None"))]

\* DYNAMIC_PLANNER_MESSAGE.format(...)
PlannerMessage(selected_meals, selected_restaurants, c) ==
    [template |-> "DYNAMIC_PLANNER_MESSAGE",
     selected_meals |-> selected_meals,
     restaurant_details |-> format_restaurant_details(selected_restaurants),
     existing_locations |-> Get(c, "existing_locations", Str("None"))]

\* DYNAMIC_COMPANION_MESSAGE.format(...)
CompanionMessage(message, c) ==
    [template |-> "DYNAMIC_COMPANION_MESSAGE",
     selected_meals |-> message.selected_meals,
     restaurant_details |->
         format_restaurant_details(Get(c, "selected_restaurants", EmptyDict)),
     route_plan |-> message,
     existing_locations |-> Get(c, "existing_locations", Str("None")),
     calendar_entries |-> Get(c, "calendar_entries", <<>>)]

\* -------------------------------------------------------- completion handlers

is_restaurant_selection(nargs, message) ==
    IF nargs = 3 THEN message.kind = "RestaurantSelection" ELSE FALSE

is_route_plan(nargs, message) ==
    IF nargs = 3 THEN message.kind = "RoutePlan" ELSE FALSE

RestaurantField(message, meal) ==
    CASE meal = "breakfast" -> message.breakfast_restaurant
      [] meal = "lunch" -> message.lunch_restaurant
      [] meal = "dinner" -> message.dinner_restaurant

\* A dict with every venue the message carries, selected meal or not.
SelectedFrom_venues(message) ==
    LET keys == {m \in Meals : RestaurantField(message, m) # None}
    IN [m \in keys |-> RestaurantField(message, m)]

\* The dict update_selected_restaurants builds from the message.
SelectedFrom(message) ==
    LET keys == {m \in Meals : m \in Range(message.selected_meals)
                               /\ RestaurantField(message, m) # None}
    IN [m \in keys |-> RestaurantField(message, m)]

\* A handler that also narrows the catalog to the venues it selected.
update_selected_restaurants_narrow(st, h, nargs, message) ==
    IF nargs = 3 /\ message.kind = "RestaurantSelection"
    THEN LET selected_restaurants == SelectedFrom(message)
             c == Update(st.ctxs[h],
                         [selected_restaurants |-> selected_restaurants,
                          selected_meals |-> message.selected_meals,
                          restaurant_count |-> Cardinality(DOMAIN selected_restaurants)])
         IN [ctxs |-> [st.ctxs EXCEPT ![h] = c],
             agents |-> [st.agents EXCEPT ![Planner].system_message =
                            PlannerMessage(message.selected_meals, selected_restaurants, c)]]
    ELSE st

\* update_selected_restaurants, registered in run h, on state st = [ctxs, agents].
update_selected_restaurants(st, h, nargs, message) ==
    IF nargs = 3 /\ message.kind = "RestaurantSelection"
    THEN LET selected_restaurants == SelectedFrom(message)
             c == Update(st.ctxs[h],
                         [selected_restaurants |-> selected_restaurants,
                          selected_meals |-> message.selected_meals])
         IN [ctxs |-> [st.ctxs EXCEPT ![h] = c],
             agents |-> [st.agents EXCEPT ![Planner].system_message =
                            PlannerMessage(message.selected_meals, selected_restaurants, c)]]
    ELSE st

\* A handler that stores the plan and empties the selection it was made for.
update_route_plan_clear(st, h, nargs, message) ==
    IF nargs = 3 /\ message.kind = "RoutePlan"
    THEN LET c == Update(st.ctxs[h],
                         [route_plan |-> message, selected_restaurants |-> EmptyDict])
         IN [ctxs |-> [st.ctxs EXCEPT ![h] = c],
             agents |-> [st.agents EXCEPT ![Companion].system_message =
                            CompanionMessage(message, c)]]
    ELSE st

\* A handler that stores whatever third argument it is given.
update_route_plan_untyped(st, h, nargs, message) ==
    IF nargs = 3
    THEN [ctxs |-> [st.ctxs EXCEPT ![h] = Update(st.ctxs[h], [route_plan |-> message])],
          agents |-> st.agents]
    ELSE st

\* update_route_plan, registered in run h.
update_route_plan(st, h, nargs, message) ==
    IF nargs = 3 /\ message.kind = "RoutePlan"
    THEN LET c == Update(st.ctxs[h], [route_plan |-> message])
         IN [ctxs |-> [st.ctxs EXCEPT ![h] = c],
             agents |-> [st.agents EXCEPT ![Companion].system_message =
                            CompanionMessage(message, c)]]
    ELSE st

\* The reply functions registered on agent a, tried in order: each runs when its
\* trigger accepts the call.
RECURSIVE RunReplyFuncs(_, _, _, _, _)
RunReplyFuncs(a, funcs, st, nargs, message) ==
    IF funcs = <<>> THEN st
    ELSE LET h == Head(funcs)
             next ==
                 CASE a = Selector /\ is_restaurant_selection(nargs, message) ->
                          update_selected_restaurants(st, h, nargs, message)
                   [] a = Planner /\ is_route_plan(nargs, message) ->
                          update_route_plan(st, h, nargs, message)
                   [] OTHER -> st
         IN RunReplyFuncs(a, Tail(funcs), next, nargs, message)

\* ------------------------------------------------------ location extraction

\* extract_location_from_description on the descriptions the model draws from:
\* the phrase after "at", or None for a generic activity.
extract_location_from_description(description) ==
    CASE description = "Breakfast at The Breakfast Club" -> Str("The Breakfast Club")
      [] description = "Lunch at The Eagle" -> Str("The Eagle")
      [] description = "Morning Run" -> None
      [] description = "Dinner at Cambridge Arms" -> Str("Cambridge Arms")

\* A line of the calendar file as parse_calendar_entries returns it, with the
\* answer the places service gives to its geocode request.
GeoOutcomes == {"match", "no_match", "no_coordinates", "error"}
CalendarLines ==
    {[start_time |-> "08:30", end_time |-> "09:00",
      description |-> "Breakfast at The Breakfast Club", geo |-> g] : g \in GeoOutcomes}
    \cup {[start_time |-> "12:30", end_time |-> "13:30",
           description |-> "Lunch at The Eagle", geo |-> g] : g \in GeoOutcomes}
    \cup {[start_time |-> "07:30", end_time |-> "08:15",
           description |-> "Morning Run", geo |-> "no_match"]}

\* The calendar source: the file cannot be read, or it holds these lines.
Calendars ==
    {[readable |-> FALSE, entries |-> <<>>]}
    \cup {[readable |-> TRUE, entries |-> e] : e \in SeqsUpTo(CalendarLines, MaxEntries)}

\* geocode_location: the first match, a dict, or None (no match, or the call raised).
geocode_location(location, geo) ==
    CASE geo = "match" -> [kind |-> "dict", display_name |-> location.v, lat |-> 52, lon |-> 0]
      [] geo = "no_coordinates" -> [kind |-> "dict", display_name |-> location.v]
      [] geo = "no_match" -> None
      [] geo = "error" -> None

\* A query that is always qualified with the city.
GeocodeQuery_qualified(location) == location \o ", Cambridge, England"

\* geocode_location: the address it asks the places service for.
GeocodeQuery(location) ==
    IF Contains(location, "Cambridge") THEN location ELSE location \o ", Cambridge, England"

\* The geocode_address calls that the loop of process_calendar_data issues, in
\* order: geocode_location is called once for an entry with a location.
RECURSIVE GeocodeRequests(_)
GeocodeRequests(entries) ==
    IF entries = <<>> THEN <<>>
    ELSE LET entry == Head(entries)
             location == extract_location_from_description(entry.description)
             rest == GeocodeRequests(Tail(entries))
         IN IF Truthy(location)
            THEN <<[step |-> "process_calendar_data", tool |-> "geocode_address",
                    address |-> GeocodeQuery(location.v)]>> \o rest
            ELSE rest

\* The calls process_calendar_data makes on calendar cal.
CalendarRequests(cal) ==
    IF ~cal.readable THEN <<>> ELSE GeocodeRequests(cal.entries)

\* A loop over the entries that ends at the first entry whose lookup fails.
RECURSIVE LocationEntries_stop(_)
LocationEntries_stop(entries) ==
    IF entries = <<>> THEN <<>>
    ELSE LET entry == Head(entries)
             location == extract_location_from_description(entry.description)
             location_info ==
                 IF location # None THEN geocode_location(location, entry.geo) ELSE None
         IN IF location = None THEN LocationEntries_stop(Tail(entries))
            ELSE IF location_info # None
                    /\ "lat" \in DOMAIN location_info /\ "lon" \in DOMAIN location_info
                 THEN <<[time |-> <<entry.start_time, entry.end_time>>,
                         description |-> entry.description,
                         location |-> location.v,
                         display_name |-> location_info.display_name,
                         latitude |-> location_info.lat,
                         longitude |-> location_info.lon]>>
                      \o LocationEntries_stop(Tail(entries))
                 ELSE <<>>

\* The loop of process_calendar_data over the entries: location_entries.
RECURSIVE LocationEntries(_)
LocationEntries(entries) ==
    IF entries = <<>> THEN <<>>
    ELSE LET entry == Head(entries)
             location == extract_location_from_description(entry.description)
             location_info ==
                 IF location # None THEN geocode_location(location, entry.geo) ELSE None
             rest == LocationEntries(Tail(entries))
         IN IF location # None /\ location_info # None
               /\ "lat" \in DOMAIN location_info /\ "lon" \in DOMAIN location_info
            THEN <<[time |-> <<entry.start_time, entry.end_time>>,
                    description |-> entry.description,
                    location |-> location.v,
                    display_name |-> location_info.display_name,
                    latitude |-> location_info.lat,
                    longitude |-> location_info.lon]>> \o rest
            ELSE rest

\* An empty update that leaves existing_locations an empty list.
NoLocations_list ==
    [calendar_locations |-> <<>>,
     calendar_entries |-> <<>>,
     existing_locations |-> [kind |-> "list", items |-> <<>>]]

NoLocations ==
    [calendar_locations |-> <<>>,
     calendar_entries |-> <<>>,
     existing_locations |-> Str("None")]

\* An update that stores the entries and their report and leaves
\* calendar_locations as it was.
LocateEntries_no_geolocations(c, cal) ==
    LET location_entries == LocationEntries(cal.entries)
    IN IF location_entries # <<>>
       THEN Update(c,
              [calendar_entries |-> location_entries,
               existing_locations |->
                   [kind |-> "str",
                    lines |-> [i \in DOMAIN location_entries |->
                             [time |-> location_entries[i].time,
                              display_name |-> location_entries[i].display_name,
                              latitude |-> location_entries[i].latitude,
                              longitude |-> location_entries[i].longitude]]]])
       ELSE Update(c, NoLocations)

\* process_calendar_data once the calendar is parsed and holds entries.
LocateEntries(c, cal) ==
    LET location_entries == LocationEntries(cal.entries)
    IN IF location_entries # <<>>
       THEN Update(c,
              [calendar_locations |->
                   [i \in DOMAIN location_entries |->
                       [latitude |-> location_entries[i].latitude,
                        longitude |-> location_entries[i].longitude]],
               calendar_entries |-> location_entries,
               existing_locations |->
                   [kind |-> "str",
                    lines |-> [i \in DOMAIN location_entries |->
                             [time |-> location_entries[i].time,
                              display_name |-> location_entries[i].display_name,
                              latitude |-> location_entries[i].latitude,
                              longitude |-> location_entries[i].longitude]]]])
       ELSE Update(c, NoLocations)

\* A process_calendar_data that returns without the update when the calendar
\* cannot be read or is empty.
process_calendar_data_no_default(c, cal) ==
    IF ~cal.readable \/ cal.entries = <<>> THEN c
    ELSE LocateEntries(c, cal)

\* A process_calendar_data whose exception handler resets the report alone.
process_calendar_data_report_only(c, cal) ==
    IF ~cal.readable THEN Update(c, [existing_locations |-> Str("None")])
    ELSE IF cal.entries = <<>> THEN Update(c, NoLocations)
    ELSE LocateEntries(c, cal)

\* process_calendar_data: the Context after it ran on calendar cal.
process_calendar_data(c, cal) ==
    IF ~cal.readable \/ cal.entries = <<>> THEN Update(c, NoLocations)
    ELSE LocateEntries(c, cal)

\* ---------------------------------------------------------- catalog builder

valid_subcategories ==
    {"restaurant", "pub", "bar", "cafe", "fast_food", "bistro", "food_court"}

\* A comparison that takes the subcategory as it is spelled.
Lower_same(s) == s

\* str.lower on the subcategories the model draws from.
Lower(s) == IF s = "Pub" THEN "pub" ELSE s

Places ==
    {[latitude |-> 52, longitude |-> 0],
     [latitude |-> 52, longitude |-> 0, tags |-> [amenity |-> "pub"]],
     [latitude |-> 52, longitude |-> 0, tags |-> [amenity |-> "pub", name |-> "The Eagle"]]}

\* The answer to find_nearby_places: the subcategories of the response's
\* categories in the order the two loops visit them (a dict holds a key once),
\* each with its places.
NearbyResponses ==
    LET Subcategories == {"Pub", "bank", "cafe"}
        PlaceLists == SeqsUpTo(Places, MaxPlaces)
    IN {<<>>}
       \cup {<<[subcategory |-> sc, places |-> ps]>> : sc \in Subcategories, ps \in PlaceLists}
       \cup {<<[subcategory |-> sc[1], places |-> ps1], [subcategory |-> sc[2], places |-> ps2]>> :
                sc \in {x \in Subcategories \X Subcategories : x[1] # x[2]},
                ps1 \in PlaceLists, ps2 \in PlaceLists}

\* The answer to geocode_address for the city.
CityOutcomes == {"found", "empty", "no_text", "error"}

RECURSIVE NamedPlaces(_, _)
NamedPlaces(subcategory, places) ==
    IF places = <<>> THEN <<>>
    ELSE LET place == Head(places)
             rest == NamedPlaces(subcategory, Tail(places))
         IN IF "tags" \in DOMAIN place /\ "name" \in DOMAIN place.tags
            THEN <<[name |-> place.tags.name,
                    type |-> subcategory,
                    latitude |-> place.latitude,
                    longitude |-> place.longitude,
                    tags |-> place.tags]>> \o rest
            ELSE rest

\* A loop that counts the places it stores, the named ones.
RECURSIVE Flatten_named(_)
Flatten_named(subcategories) ==
    IF subcategories = <<>>
    THEN [restaurant_count |-> 0, restaurant_categories |-> <<>>,
          restaurants_with_locations |-> <<>>]
    ELSE LET sub == Head(subcategories)
             rest == Flatten_named(Tail(subcategories))
         IN IF Lower(sub.subcategory) \in valid_subcategories
            THEN [restaurant_count |->
                      Len(NamedPlaces(sub.subcategory, sub.places)) + rest.restaurant_count,
                  restaurant_categories |->
                      <<[subcategory |-> sub.subcategory, place_count |-> Len(sub.places)]>>
                      \o rest.restaurant_categories,
                  restaurants_with_locations |->
                      NamedPlaces(sub.subcategory, sub.places)
                      \o rest.restaurants_with_locations]
            ELSE rest

\* The loop of get_cambridge_restaurant_data over the subcategories.
RECURSIVE Flatten(_)
Flatten(subcategories) ==
    IF subcategories = <<>>
    THEN [restaurant_count |-> 0, restaurant_categories |-> <<>>,
          restaurants_with_locations |-> <<>>]
    ELSE LET sub == Head(subcategories)
             rest == Flatten(Tail(subcategories))
         IN IF Lower(sub.subcategory) \in valid_subcategories
            THEN [restaurant_count |-> Len(sub.places) + rest.restaurant_count,
                  restaurant_categories |->
                      <<[subcategory |-> sub.subcategory, place_count |-> Len(sub.places)]>>
                      \o rest.restaurant_categories,
                  restaurants_with_locations |->
                      NamedPlaces(sub.subcategory, sub.places)
                      \o rest.restaurants_with_locations]
            ELSE rest

\* A catalog builder that asks for the nearby places whatever the geocode returned.
CatalogRequests_always(city) ==
    <<[step |-> "get_cambridge_restaurant_data", tool |-> "geocode_address",
       address |-> "Cambridge, England"],
      [step |-> "get_cambridge_restaurant_data", tool |-> "find_nearby_places",
       latitude |-> 52, longitude |-> 0, radius |-> 2000,
       categories |-> <<"amenity">>, limit |-> 1000]>>

\* The calls get_cambridge_restaurant_data makes: the geocode of the city, and
\* the nearby places when the geocode gave a location.
CatalogRequests(city) ==
    <<[step |-> "get_cambridge_restaurant_data", tool |-> "geocode_address",
       address |-> "Cambridge, England"]>>
    \o IF city = "found"
       THEN <<[step |-> "get_cambridge_restaurant_data", tool |-> "find_nearby_places",
               latitude |-> 52, longitude |-> 0, radius |-> 2000,
               categories |-> <<"amenity">>, limit |-> 1000]>>
       ELSE <<>>

\* get_cambridge_restaurant_data: the Context after it returned (city is not "error").
get_cambridge_restaurant_data(c, city, nearby) ==
    IF city = "found" THEN Update(c, Flatten(nearby)) ELSE c

\* ------------------------------------------------------------ the coordinator

max_rounds == 20

NoArgs == [kind |-> "NoArgs"]

\* The arguments a caller passes to run_restaurant_workflow.
RunArgChoices ==
    {[user_food_preferences |-> None, user_constraints |-> None,
      requested_meals |-> None],
     [user_food_preferences |-> Str("vegetarian"), user_constraints |-> Str("no nuts"),
      requested_meals |-> List(<<"lunch">>)],
     [user_food_preferences |-> Str("vegetarian"), user_constraints |-> None,
      requested_meals |-> List(<<"dinner", "breakfast">>)]}

\* context_updates of run_restaurant_workflow.
context_updates(a) ==
    [k \in {k \in {"food_preferences", "constraints", "requested_meals"} :
              CASE k = "food_preferences" -> Truthy(a.user_food_preferences)
                [] k = "constraints" -> Truthy(a.user_constraints)
                [] k = "requested_meals" -> Truthy(a.requested_meals)} |->
        CASE k = "food_preferences" -> a.user_food_preferences
          [] k = "constraints" -> a.user_constraints
          [] k = "requested_meals" -> a.requested_meals.items]

\* Nothing read from the calendar file or the places service yet.
NoEnv ==
    [calendar |-> [kind |-> "NoCalendar"], city |-> "none", nearby |-> <<>>, requests |-> <<>>]

NoReplies == [a \in AgentNames |-> NoReply]
NoMessages == [a \in AgentNames |-> NoMessage]

\* No second coroutine, and no call of a front-end function, is being followed.
NoPar == [kind |-> "NoPar"]
NoCall == [kind |-> "NoCall"]

\* The process before run_restaurant_workflow is called.
InitWorkflow ==
    /\ pc = "idle"
    /\ run = 0
    /\ args = NoArgs
    /\ ctxs = [r \in 1..MaxRuns |-> NoContext]
    /\ agents = create_agents
    /\ cache \in CacheStates
    /\ speaker = "none"
    /\ phase = "idle"
    /\ rounds = 0
    /\ replies = NoReplies
    /\ used = NoMessages
    /\ result = None
    /\ trace = <<>>
    /\ env = NoEnv

Init ==
    /\ InitWorkflow
    /\ par = NoPar
    /\ fn = NoCall

\* A caller (main, or the GUI's planner thread through main) creates the agents
\* and calls run_restaurant_workflow; a caller may also pass the agents of the
\* run before.
StartRun(a, fresh) ==
    /\ pc \in {"idle", "done", "failed"}
    /\ run < MaxRuns
    /\ run' = run + 1
    /\ args' = a
    /\ agents' = IF fresh THEN create_agents ELSE agents
    /\ pc' = "reset"
    /\ speaker' = "none"
    /\ phase' = "idle"
    /\ rounds' = 0
    /\ replies' = NoReplies
    /\ used' = NoMessages
    /\ result' = None
    /\ trace' = <<>>
    /\ env' = NoEnv
    /\ UNCHANGED <<par, fn, ctxs, cache>>

\* run_restaurant_workflow: "Reset agents".
ResetAgents ==
    /\ pc = "reset"
    /\ agents' = [a \in AgentNames |-> ResetAgent(agents[a])]
    /\ trace' = Append(trace, "reset_agents")
    /\ pc' = "clear_cache"
    /\ UNCHANGED <<par, fn, env, run, args, ctxs, cache, speaker, phase, rounds, replies, used, result>>

\* run_restaurant_workflow: "Clear the cache".
ClearCache ==
    /\ pc = "clear_cache"
    /\ cache' = clear_cache(cache)
    /\ trace' = Append(trace, "clear_cache")
    /\ pc' = "init_context"
    /\ UNCHANGED <<par, fn, env, run, args, ctxs, agents, speaker, phase, rounds, replies, used, result>>

\* An initialisation that updates the Context of the run before, when there is one.
InitContext_shared ==
    /\ pc = "init_context"
    /\ ctxs' = [ctxs EXCEPT ![run] =
                  Update(IF run > 1 /\ ctxs[run - 1] # NoContext
                         THEN ctxs[run - 1] ELSE init_workflow_context,
                         context_updates(args))]
    /\ trace' = Append(trace, "init_context")
    /\ pc' = "calendar"
    /\ UNCHANGED <<par, fn, env, run, args, agents, cache, speaker, phase, rounds, replies, used, result>>

\* run_restaurant_workflow: "Initialize the workflow context" and the update
\* with the user's preferences, constraints and requested meals.
InitContext ==
    /\ pc = "init_context"
    /\ ctxs' = [ctxs EXCEPT ![run] = Update(init_workflow_context, context_updates(args))]
    /\ trace' = Append(trace, "init_context")
    /\ pc' = "calendar"
    /\ UNCHANGED <<par, fn, env, run, args, agents, cache, speaker, phase, rounds, replies, used, result>>

\* await process_calendar_data(session, workflow_context)
ProcessCalendar(cal) ==
    /\ pc = "calendar"
    /\ ctxs' = [ctxs EXCEPT ![run] = process_calendar_data(ctxs[run], cal)]
    /\ env' = [env EXCEPT !.calendar = cal, !.requests = @ \o CalendarRequests(cal)]
    /\ trace' = Append(trace, "process_calendar_data")
    /\ pc' = "catalog"
    /\ UNCHANGED <<par, fn, run, args, agents, cache, speaker, phase, rounds, replies, used, result>>

\* await get_cambridge_restaurant_data(session, workflow_context): an exception
\* of the places-service call is not caught and ends the run.
GetRestaurantData(city, nearby) ==
    /\ pc = "catalog"
    /\ IF city = "error"
       THEN /\ pc' = "failed"
            /\ trace' = Append(trace, "raise")
            /\ UNCHANGED ctxs
       ELSE /\ ctxs' = [ctxs EXCEPT ![run] =
                           get_cambridge_restaurant_data(ctxs[run], city, nearby)]
            /\ trace' = Append(trace, "get_cambridge_restaurant_data")
            /\ pc' = "setup_handlers"
    /\ env' = [env EXCEPT !.city = city,
                          !.nearby = IF city = "found" THEN nearby ELSE <<>>,
                          !.requests = @ \o CatalogRequests(city)]
    /\ UNCHANGED <<par, fn, run, args, agents, cache, speaker, phase, rounds, replies, used, result>>

\* setup_context_handlers: register_reply puts the new reply function first.
SetupHandlers ==
    /\ pc = "setup_handlers"
    /\ agents' = [agents EXCEPT
                    ![Selector].reply_funcs = <<run>> \o @,
                    ![Planner].reply_funcs = <<run>> \o @]
    /\ trace' = Append(trace, "setup_context_handlers")
    /\ pc' = "selector_message"
    /\ UNCHANGED <<par, fn, env, run, args, ctxs, cache, speaker, phase, rounds, replies, used, result>>

\* run_restaurant_workflow: "Update selector message".
UpdateSelectorMessage ==
    /\ pc = "selector_message"
    /\ agents' = [agents EXCEPT ![Selector].system_message = SelectorMessage(ctxs[run])]
    /\ trace' = Append(trace, "update_selector_message")
    /\ pc' = "pattern"
    /\ UNCHANGED <<par, fn, env, run, args, ctxs, cache, speaker, phase, rounds, replies, used, result>>

\* DefaultPattern(initial_agent=selector_agent) and the call of a_initiate_group_chat.
StartChat ==
    /\ pc = "pattern"
    /\ speaker' = Selector
    /\ phase' = "ready"
    /\ rounds' = 0
    /\ trace' = Append(trace, "a_initiate_group_chat")
    /\ pc' = "chat"
    /\ UNCHANGED <<par, fn, env, run, args, ctxs, agents, cache, replies, used, result>>

\* The group chat gives the turn to the speaker: the agent's
\* update_agent_state_before_reply hook sets its system message, then the model
\* call is issued with the system message the agent holds.
InvokeStage ==
    /\ pc = "chat"
    /\ phase = "ready"
    /\ rounds < max_rounds
    /\ agents' = [agents EXCEPT ![speaker].system_message = agents[speaker].update_state]
    /\ used' = [used EXCEPT ![speaker] = agents'[speaker].system_message]
    /\ phase' = "executing"
    /\ trace' = Append(trace, speaker)
    /\ UNCHANGED <<par, fn, env, pc, run, args, ctxs, cache, speaker, rounds, replies, result>>

\* The speaker's hand-off after message: the LLM condition's target when the model
\* called it, the after-work target otherwise.
NextTarget(a, message) ==
    IF message.kind = "handoff" THEN LlmConditionTarget(a) ELSE AfterWork(a)

\* The model call of the speaker returns message: the agent's reply functions
\* run, the message joins every agent's conversation, and the turn passes on; the
\* chat ends on TerminateTarget or after max_rounds turns. The model call leaves
\* its result in ./.cache (cache_seed).
StageReply(message, nargs) ==
    /\ pc = "chat"
    /\ phase = "executing"
    /\ message \in StageReplies(speaker)
    /\ LET st == RunReplyFuncs(speaker, agents[speaker].reply_funcs,
                               [ctxs |-> ctxs, agents |-> agents], nargs, message)
           target == NextTarget(speaker, message)
       IN /\ ctxs' = st.ctxs
          /\ agents' = [a \in AgentNames |->
                          [st.agents[a] EXCEPT !.history = @ + 1]]
          /\ replies' = [replies EXCEPT ![speaker] = message]
          /\ rounds' = rounds + 1
          /\ trace' = Append(trace, "reply")
          /\ cache' = "dir"
          /\ IF target = Terminate \/ rounds + 1 >= max_rounds
             THEN /\ pc' = "done"
                  /\ speaker' = "none"
                  /\ phase' = "idle"
                  /\ result' = message
             ELSE /\ pc' = "chat"
                  /\ speaker' = target
                  /\ phase' = "ready"
                  /\ result' = result
    /\ UNCHANGED <<par, fn, env, run, args, used>>

\* An error handling that passes the turn to the next stage.
StageError_skip ==
    /\ pc = "chat"
    /\ phase = "executing"
    /\ trace' = Append(trace, "raise")
    /\ IF AfterWork(speaker) = Terminate
       THEN /\ pc' = "failed"
            /\ phase' = "idle"
            /\ speaker' = speaker
       ELSE /\ pc' = pc
            /\ phase' = "ready"
            /\ speaker' = AfterWork(speaker)
    /\ UNCHANGED <<par, fn, env, run, args, ctxs, agents, cache, rounds, replies, used, result>>

\* An error handling that gives the turn back to the same stage, as if its call
\* had not been issued, without counting the attempt.
StageError_retry ==
    /\ pc = "chat"
    /\ phase = "executing"
    /\ phase' = "ready"
    /\ trace' = SubSeq(trace, 1, Len(trace) - 1)
    /\ UNCHANGED <<par, fn, env, pc, run, args, ctxs, agents, cache, speaker, rounds, replies, used,
                   result>>

\* The model call of the speaker raises (transport, timeout, validation): the
\* exception leaves a_initiate_group_chat and run_restaurant_workflow.
StageError ==
    /\ pc = "chat"
    /\ phase = "executing"
    /\ pc' = "failed"
    /\ phase' = "idle"
    /\ trace' = Append(trace, "raise")
    /\ UNCHANGED <<par, fn, env, run, args, ctxs, agents, cache, speaker, rounds, replies, used, result>>

\* The steps of a run that take no input.
Step ==
    \/ ResetAgents
    \/ ClearCache
    \/ InitContext
    \/ SetupHandlers
    \/ UpdateSelectorMessage
    \/ StartChat
    \/ InvokeStage
    \/ StageError

\* The calendars and the answers of the places service that the runs of the
\* workflow specifications draw from: an unreadable calendar or one entry with a
\* location; no city, a failing call, or a city with one pub.
RunCalendars ==
    {[readable |-> FALSE, entries |-> <<>>],
     [readable |-> TRUE,
      entries |-> <<[start_time |-> "08:30", end_time |-> "09:00",
                     description |-> "Breakfast at The Breakfast Club",
                     geo |-> "match"]>>]}

RunNearby ==
    {<<[subcategory |-> "Pub",
        places |-> <<[latitude |-> 52, longitude |-> 0,
                      tags |-> [amenity |-> "pub", name |-> "The Eagle"]]>>]>>}

\* One run of the workflow in a new process, over every reply of the stages.
Next ==
    \/ \E a \in RunArgChoices : run = 0 /\ StartRun(a, TRUE)
    \/ Step
    \/ \E cal \in RunCalendars : ProcessCalendar(cal)
    \/ \E city \in CityOutcomes, nearby \in RunNearby : GetRestaurantData(city, nearby)
    \/ \E message \in AllReplies, nargs \in ArgShapes : StageReply(message, nargs)

Spec == Init /\ [][Next]_vars

\* The same run when every awaited call returns or times out (the model calls
\* carry a timeout, DEFAULT_LLM_CONFIG): the coroutine is always resumed.
SpecFair == Init /\ [][Next]_vars /\ WF_vars(Next)

\* The replies the runs of SpecRuns draw from: free text, a selection for lunch
\* or for breakfast, and one result for each later stage.
RunsReplies ==
    {Text}
    \cup {r \in RestaurantSelections :
            /\ r.selected_meals = <<"lunch">>
            /\ r.lunch_restaurant # None
            /\ r.breakfast_restaurant = None
            /\ r.dinner_restaurant = None}
    \cup {r \in RestaurantSelections :
            /\ r.selected_meals = <<"breakfast">>
            /\ r.breakfast_restaurant # None
            /\ r.lunch_restaurant = None
            /\ r.dinner_restaurant = None}
    \cup {r \in RoutePlans : r.selected_meals = <<"lunch">> /\ r.route_overview # ""}
    \cup {r \in CompanionOutputs : r.greeting # ""}

\* Up to MaxRuns runs, one after the other, in one process: each with new agents
\* or with the agents of the run before.
NextRuns ==
    \/ \E a \in RunArgChoices, fresh \in BOOLEAN : StartRun(a, fresh)
    \/ Step
    \/ \E cal \in RunCalendars : ProcessCalendar(cal)
    \/ \E nearby \in RunNearby : GetRestaurantData("found", nearby)
    \/ \E message \in RunsReplies, nargs \in ArgShapes : StageReply(message, nargs)

SpecRuns == Init /\ [][NextRuns]_vars

\* One run over every calendar file and every answer to its geocode requests.
NextLocate ==
    \/ \E a \in RunArgChoices : run = 0 /\ StartRun(a, TRUE)
    \/ Step
    \/ \E cal \in Calendars : ProcessCalendar(cal)
    \/ \E nearby \in RunNearby : GetRestaurantData("found", nearby)
    \/ \E message \in RunsReplies, nargs \in ArgShapes : StageReply(message, nargs)

SpecLocate == Init /\ [][NextLocate]_vars

\* One run over every answer of the places service to the catalog builder.
NextCatalog ==
    \/ \E a \in RunArgChoices : run = 0 /\ StartRun(a, TRUE)
    \/ Step
    \/ \E cal \in RunCalendars : ProcessCalendar(cal)
    \/ \E city \in CityOutcomes, nearby \in NearbyResponses : GetRestaurantData(city, nearby)
    \/ \E message \in RunsReplies, nargs \in ArgShapes : StageReply(message, nargs)

SpecCatalog == Init /\ [][NextCatalog]_vars

\* The calendars of the runs that follow the geocode requests: entries with a
\* location that names the city or does not, and one without a location.
QueryCalendars ==
    LET lines ==
          {[start_time |-> "19:00", end_time |-> "20:30",
            description |-> "Dinner at Cambridge Arms", geo |-> g] : g \in GeoOutcomes}
          \cup {[start_time |-> "12:30", end_time |-> "13:30",
                 description |-> "Lunch at The Eagle", geo |-> g] : g \in {"match", "error"}}
          \cup {[start_time |-> "07:30", end_time |-> "08:15",
                 description |-> "Morning Run", geo |-> "no_match"]}
    IN {[readable |-> FALSE, entries |-> <<>>]}
       \cup {[readable |-> TRUE, entries |-> e] : e \in SeqsUpTo(lines, MaxEntries)}

\* One run over these calendars.
NextGeocode ==
    \/ \E a \in RunArgChoices : run = 0 /\ StartRun(a, TRUE)
    \/ Step
    \/ \E cal \in QueryCalendars : ProcessCalendar(cal)
    \/ \E city \in CityOutcomes, nearby \in RunNearby : GetRestaurantData(city, nearby)
    \/ \E message \in RunsReplies, nargs \in ArgShapes : StageReply(message, nargs)

SpecGeocode == Init /\ [][NextGeocode]_vars

\* ------------------------------------------------- two runs at the same time

\* Two calls of main in progress in one event loop: each creates its agents and
\* calls run_restaurant_workflow; a coroutine runs from one await to the next and
\* the two interleave at their awaits (process_calendar_data,
\* get_cambridge_restaurant_data, and each model call of the chat).
ParRuns == {1, 2}

\* One module-level Context object that every call uses.
ContextOf_global(r) == 1

\* The Context object that run r's call of init_workflow_context returns: a new
\* ContextVariables for each call.
ContextOf(r) == r

\* What the callers of the two runs pass: main always passes the three answers
\* of the console.
ParArgChoices == {a \in RunArgChoices : Truthy(a.requested_meals)}

NoCoroutine ==
    [pc |-> "idle", ctx |-> 0, agents |-> create_agents, speaker |-> "none",
     phase |-> "idle", result |-> None]

InitPar ==
    /\ InitWorkflow
    /\ fn = NoCall
    /\ par = [last |-> 0,
              ctxs |-> [o \in ParRuns |-> NoContext],
              runs |-> [r \in ParRuns |-> NoCoroutine]]

\* main creates the agents; run_restaurant_workflow resets them, clears the
\* cache, creates its Context and updates it, and awaits process_calendar_data.
ParBegin(r, a) ==
    /\ par.runs[r].pc = "idle"
    /\ LET o == ContextOf(r)
       IN par' = [par EXCEPT
                    !.last = r,
                    !.ctxs[o] = Update(init_workflow_context, context_updates(a)),
                    !.runs[r] = [@ EXCEPT
                        !.pc = "calendar",
                        !.ctx = o,
                        !.agents = [ag \in AgentNames |-> ResetAgent(create_agents[ag])]]]
    /\ cache' = clear_cache(cache)
    /\ UNCHANGED <<fn, env, pc, run, args, ctxs, agents, speaker, phase, rounds, replies, used,
                   result, trace>>

\* process_calendar_data returns; run r awaits get_cambridge_restaurant_data.
ParCalendar(r, cal) ==
    /\ par.runs[r].pc = "calendar"
    /\ LET o == par.runs[r].ctx
       IN par' = [par EXCEPT
                    !.last = r,
                    !.ctxs[o] = process_calendar_data(par.ctxs[o], cal),
                    !.runs[r].pc = "catalog"]
    /\ UNCHANGED <<fn, env, pc, run, args, ctxs, agents, cache, speaker, phase, rounds, replies,
                   used, result, trace>>

\* get_cambridge_restaurant_data returns; run r registers its handlers (closures
\* over its Context), renders the selector's message and starts the chat.
ParCatalog(r, nearby) ==
    /\ par.runs[r].pc = "catalog"
    /\ LET o == par.runs[r].ctx
           c == get_cambridge_restaurant_data(par.ctxs[o], "found", nearby)
       IN par' = [par EXCEPT
                    !.last = r,
                    !.ctxs[o] = c,
                    !.runs[r] = [@ EXCEPT
                        !.pc = "chat",
                        !.speaker = Selector,
                        !.phase = "ready",
                        !.agents = [@ EXCEPT
                            ![Selector].reply_funcs = <<o>> \o @,
                            ![Planner].reply_funcs = <<o>> \o @,
                            ![Selector].system_message = SelectorMessage(c)]]]
    /\ UNCHANGED <<fn, env, pc, run, args, ctxs, agents, cache, speaker, phase, rounds, replies,
                   used, result, trace>>

\* The chat of run r gives the turn to its speaker and awaits the model call.
ParInvoke(r) ==
    /\ par.runs[r].pc = "chat"
    /\ par.runs[r].phase = "ready"
    /\ LET a == par.runs[r].speaker
       IN par' = [par EXCEPT
                    !.last = r,
                    !.runs[r].phase = "executing",
                    !.runs[r].agents[a].system_message = par.runs[r].agents[a].update_state]
    /\ UNCHANGED <<fn, env, pc, run, args, ctxs, agents, cache, speaker, phase, rounds, replies,
                   used, result, trace>>

\* The model call of run r's speaker returns message.
ParReply(r, message, nargs) ==
    /\ par.runs[r].pc = "chat"
    /\ par.runs[r].phase = "executing"
    /\ message \in StageReplies(par.runs[r].speaker)
    /\ LET a == par.runs[r].speaker
           st == RunReplyFuncs(a, par.runs[r].agents[a].reply_funcs,
                               [ctxs |-> par.ctxs, agents |-> par.runs[r].agents],
                               nargs, message)
           target == NextTarget(a, message)
       IN par' = [par EXCEPT
                    !.last = r,
                    !.ctxs = st.ctxs,
                    !.runs[r] = [@ EXCEPT
                        !.agents = [ag \in AgentNames |->
                                       [st.agents[ag] EXCEPT !.history = @ + 1]],
                        !.pc = IF target = Terminate THEN "done" ELSE "chat",
                        !.speaker = IF target = Terminate THEN "none" ELSE target,
                        !.phase = IF target = Terminate THEN "idle" ELSE "ready",
                        !.result = IF target = Terminate THEN message ELSE @]]
    /\ cache' = "dir"
    /\ UNCHANGED <<fn, env, pc, run, args, ctxs, agents, speaker, phase, rounds, replies, used,
                   result, trace>>

\* The model call of run r's speaker raises.
ParError(r) ==
    /\ par.runs[r].pc = "chat"
    /\ par.runs[r].phase = "executing"
    /\ par' = [par EXCEPT !.last = r, !.runs[r].pc = "failed", !.runs[r].phase = "idle"]
    /\ UNCHANGED <<fn, env, pc, run, args, ctxs, agents, cache, speaker, phase, rounds, replies,
                   used, result, trace>>

NextPar ==
    \/ \E r \in ParRuns, a \in ParArgChoices : ParBegin(r, a)
    \/ \E r \in ParRuns, cal \in RunCalendars : ParCalendar(r, cal)
    \/ \E r \in ParRuns, nearby \in RunNearby : ParCatalog(r, nearby)
    \/ \E r \in ParRuns : ParInvoke(r)
    \/ \E r \in ParRuns, message \in RunsReplies, nargs \in ArgShapes : ParReply(r, message, nargs)
    \/ \E r \in ParRuns : ParError(r)

SpecPar == InitPar /\ [][NextPar]_vars

\* ------------------------------------------------------ console front end

\* The tokens between the commas of a line typed at the meal prompt, stripped.
Tokens == {"1", "2", "3", "4", "5", "x", ""}

\* user_input.split(','): the empty line splits into one empty token.
EmptyLine == <<"">>
Lines == SeqsUpTo(Tokens, MaxTokens) \ {<<>>}

\* int(choice.strip()): the number, or ValueError.
ParseInt(token) ==
    CASE token = "1" -> [ok |-> TRUE, v |-> 1]
      [] token = "2" -> [ok |-> TRUE, v |-> 2]
      [] token = "3" -> [ok |-> TRUE, v |-> 3]
      [] token = "4" -> [ok |-> TRUE, v |-> 4]
      [] token = "5" -> [ok |-> TRUE, v |-> 5]
      [] OTHER -> [ok |-> FALSE, v |-> 0]

\* A loop over the choices that appends a meal each time its number comes.
RECURSIVE ProcessChoices_dup(_, _)
ProcessChoices_dup(choices, requested_meals) ==
    IF choices = <<>> THEN [requested_meals |-> requested_meals, valid_response |-> TRUE]
    ELSE LET choice == Head(choices)
         IN CASE choice = 1 ->
                    ProcessChoices_dup(Tail(choices), Append(requested_meals, "breakfast"))
              [] choice = 2 ->
                    ProcessChoices_dup(Tail(choices), Append(requested_meals, "lunch"))
              [] choice = 3 ->
                    ProcessChoices_dup(Tail(choices), Append(requested_meals, "dinner"))
              [] choice = 4 ->
                    [requested_meals |-> <<"breakfast", "lunch", "dinner">>,
                     valid_response |-> TRUE]
              [] OTHER -> [requested_meals |-> <<>>, valid_response |-> FALSE]

\* get_requested_meals: the loop "for choice in choices".
RECURSIVE ProcessChoices(_, _)
ProcessChoices(choices, requested_meals) ==
    IF choices = <<>> THEN [requested_meals |-> requested_meals, valid_response |-> TRUE]
    ELSE LET choice == Head(choices)
         IN CASE choice = 1 /\ "breakfast" \notin Range(requested_meals) ->
                    ProcessChoices(Tail(choices), Append(requested_meals, "breakfast"))
              [] choice = 2 /\ "lunch" \notin Range(requested_meals) ->
                    ProcessChoices(Tail(choices), Append(requested_meals, "lunch"))
              [] choice = 3 /\ "dinner" \notin Range(requested_meals) ->
                    ProcessChoices(Tail(choices), Append(requested_meals, "dinner"))
              [] choice = 4 ->
                    [requested_meals |-> <<"breakfast", "lunch", "dinner">>,
                     valid_response |-> TRUE]
              [] OTHER -> [requested_meals |-> <<>>, valid_response |-> FALSE]

\* gui.get_selected_meals: the ticked meals, in the order of the boxes.
get_selected_meals(boxes) == SelectSeq(MealOrder, LAMBDA m : m \in boxes)

\* A choice string that is "4" as soon as two boxes are ticked.
GuiLine_four(boxes) ==
    IF Cardinality(boxes) >= 2 THEN <<"4">>
    ELSE (IF "breakfast" \in boxes THEN <<"1">> ELSE <<>>)
         \o (IF "lunch" \in boxes THEN <<"2">> ELSE <<>>)
         \o (IF "dinner" \in boxes THEN <<"3">> ELSE <<>>)

\* run_planner_thread: the line the GUI feeds to the meal prompt for its boxes.
GuiLine(boxes) ==
    IF boxes = Meals THEN <<"4">>
    ELSE (IF "breakfast" \in boxes THEN <<"1">> ELSE <<>>)
         \o (IF "lunch" \in boxes THEN <<"2">> ELSE <<>>)
         \o (IF "dinner" \in boxes THEN <<"3">> ELSE <<>>)

InitMeals ==
    /\ InitWorkflow
    /\ par = NoPar
    /\ fn = [kind |-> "get_requested_meals", pc |-> "start", source |-> "none",
             stdin |-> <<>>, prompts |-> 0, line |-> <<>>, requested_meals |-> <<>>,
             boxes |-> {}, context |-> NoContext]

\* python main.py: main calls get_requested_meals, which reads the console.
ConsoleStart ==
    /\ fn.pc = "start"
    /\ fn' = [fn EXCEPT !.pc = "prompt", !.source = "console"]
    /\ UNCHANGED <<par, env, pc, run, args, ctxs, agents, cache, speaker, phase, rounds, replies,
                   used, result, trace>>

\* gui.start_planning with these meal boxes ticked: nothing starts without a
\* box; otherwise the planner thread calls main with a simulated stdin.
GuiStart(boxes) ==
    /\ fn.pc = "start"
    /\ fn' = IF boxes = {}
             THEN [fn EXCEPT !.pc = "refused", !.source = "gui"]
             ELSE [fn EXCEPT !.pc = "prompt", !.source = "gui", !.boxes = boxes,
                             !.stdin = <<GuiLine(boxes)>>]
    /\ UNCHANGED <<par, env, pc, run, args, ctxs, agents, cache, speaker, phase, rounds, replies,
                   used, result, trace>>

\* One pass of the loop of get_requested_meals on the line read: the console's
\* line, or the next line of the simulated stdin (an empty line when it ran out).
ReadLine(typed) ==
    /\ fn.pc = "prompt"
    /\ fn.prompts < MaxLines
    /\ LET user_input == IF fn.source = "console" THEN typed
                         ELSE IF fn.stdin # <<>> THEN Head(fn.stdin) ELSE EmptyLine
           rest == IF fn.source = "gui" /\ fn.stdin # <<>> THEN Tail(fn.stdin) ELSE fn.stdin
           read == [fn EXCEPT !.prompts = @ + 1, !.line = user_input, !.stdin = rest]
       IN IF user_input = EmptyLine
          THEN fn' = [read EXCEPT !.pc = "returned",
                                  !.requested_meals = <<"breakfast", "lunch", "dinner">>]
          ELSE IF \E i \in DOMAIN user_input : ~ParseInt(user_input[i]).ok
          THEN fn' = read
          ELSE LET choices == [i \in DOMAIN user_input |-> ParseInt(user_input[i]).v]
                   done == ProcessChoices(choices, fn.requested_meals)
               IN IF done.valid_response /\ Len(done.requested_meals) # 0
                  THEN fn' = [read EXCEPT !.pc = "returned",
                                          !.requested_meals = done.requested_meals]
                  ELSE fn' = [read EXCEPT !.requested_meals = done.requested_meals]
    /\ UNCHANGED <<par, env, pc, run, args, ctxs, agents, cache, speaker, phase, rounds, replies,
                   used, result, trace>>

\* main passes the list to run_restaurant_workflow, which puts it in its Context.
PutInContext ==
    /\ fn.pc = "returned"
    /\ fn' = [fn EXCEPT
                !.pc = "in_context",
                !.context = Update(init_workflow_context,
                                   context_updates([user_food_preferences |-> Str("casual"),
                                                    user_constraints |-> Str("none"),
                                                    requested_meals |->
                                                        List(fn.requested_meals)]))]
    /\ UNCHANGED <<par, env, pc, run, args, ctxs, agents, cache, speaker, phase, rounds, replies,
                   used, result, trace>>

NextMeals ==
    \/ ConsoleStart
    \/ \E boxes \in SUBSET Meals : GuiStart(boxes)
    \/ \E typed \in Lines : ReadLine(typed)
    \/ PutInContext

SpecMeals == InitMeals /\ [][NextMeals]_vars

\* ------------------------------------------------------ the GUI's two threads

\* The window of gui.py: the Tk main loop runs the button's command and the
\* callbacks given to root.after; the one worker of the ThreadPoolExecutor runs
\* run_planner_thread. sys.stdin and sys.stdout belong to the process.
Console == [kind |-> "console"]

InitGui ==
    /\ InitWorkflow
    /\ par = NoPar
    /\ fn = [kind |-> "gui", plan_button |-> "normal", boxes |-> {}, clicks |-> 0,
             submitted |-> 0, worker |-> "idle", stdin |-> Console, stdout |-> Console,
             original_stdin |-> None, original_stdout |-> None, after |-> 0,
             outcome |-> "none"]

\* A click on the plan button with these boxes ticked: a disabled button does
\* not call its command; start_planning refuses without a box, and otherwise
\* disables the button and submits run_planner_thread.
GuiClick(boxes) ==
    /\ fn.plan_button = "normal"
    /\ fn.clicks < MaxClicks
    /\ fn' = IF boxes = {}
             THEN [fn EXCEPT !.clicks = @ + 1, !.boxes = boxes]
             ELSE [fn EXCEPT !.clicks = @ + 1, !.boxes = boxes,
                             !.plan_button = "disabled", !.submitted = @ + 1]
    /\ UNCHANGED <<par, env, pc, run, args, ctxs, agents, cache, speaker, phase, rounds, replies,
                   used, result, trace>>

\* The worker takes the submitted call: run_planner_thread keeps the two streams.
WorkerBegin ==
    /\ fn.worker = "idle"
    /\ fn.submitted > 0
    /\ fn' = [fn EXCEPT !.submitted = @ - 1, !.worker = "try",
                        !.original_stdin = fn.stdin, !.original_stdout = fn.stdout,
                        !.outcome = "none"]
    /\ UNCHANGED <<par, env, pc, run, args, ctxs, agents, cache, speaker, phase, rounds, replies,
                   used, result, trace>>

\* run_planner_thread redirects stdout and puts the simulated stdin in place.
WorkerRedirect ==
    /\ fn.worker = "try"
    /\ fn' = [fn EXCEPT
                !.worker = "running",
                !.stdout = [kind |-> "RedirectText"],
                !.stdin = [kind |-> "SimulatedStdin",
                           responses |-> <<<<"food_prefs">>, <<"constraints">>,
                                           GuiLine(fn.boxes)>>]]
    /\ UNCHANGED <<par, env, pc, run, args, ctxs, agents, cache, speaker, phase, rounds, replies,
                   used, result, trace>>

\* An exception that leaves run_planner_thread at once.
PlannerRaises_unhandled ==
    /\ fn.worker = "running"
    /\ fn' = [fn EXCEPT !.worker = "idle", !.outcome = "raised"]
    /\ UNCHANGED <<par, env, pc, run, args, ctxs, agents, cache, speaker, phase, rounds, replies,
                   used, result, trace>>

\* asyncio.run(run_planner()) raises: the except clause prints the error.
PlannerRaises ==
    /\ fn.worker = "running"
    /\ fn' = [fn EXCEPT !.worker = "finally", !.outcome = "raised"]
    /\ UNCHANGED <<par, env, pc, run, args, ctxs, agents, cache, speaker, phase, rounds, replies,
                   used, result, trace>>

\* asyncio.run(run_planner()) returns.
PlannerReturns ==
    /\ fn.worker = "running"
    /\ fn' = [fn EXCEPT !.worker = "finally", !.outcome = "returned"]
    /\ UNCHANGED <<par, env, pc, run, args, ctxs, agents, cache, speaker, phase, rounds, replies,
                   used, result, trace>>

\* The finally clause: the streams are restored and the re-enabling of the
\* button is handed to the main loop.
WorkerFinally ==
    /\ fn.worker = "finally"
    /\ fn' = [fn EXCEPT !.worker = "idle", !.stdin = fn.original_stdin,
                        !.stdout = fn.original_stdout, !.after = @ + 1]
    /\ UNCHANGED <<par, env, pc, run, args, ctxs, agents, cache, speaker, phase, rounds, replies,
                   used, result, trace>>

\* The main loop runs the callback of root.after(0, ...).
AfterCallback ==
    /\ fn.after > 0
    /\ fn' = [fn EXCEPT !.after = @ - 1, !.plan_button = "normal"]
    /\ UNCHANGED <<par, env, pc, run, args, ctxs, agents, cache, speaker, phase, rounds, replies,
                   used, result, trace>>

NextGui ==
    \/ \E boxes \in SUBSET Meals : GuiClick(boxes)
    \/ WorkerBegin
    \/ WorkerRedirect
    \/ PlannerRaises
    \/ PlannerReturns
    \/ WorkerFinally
    \/ AfterCallback

SpecGui == InitGui /\ [][NextGui]_vars

\* ----------------------------------------------- the calendar's descriptions

\* A description is the sequence of its characters.
UpperChars ==
    <<"A", "B", "C", "D", "E", "F", "G", "H", "I", "J", "K", "L", "M",
      "N", "O", "P", "Q", "R", "S", "T", "U", "V", "W", "X", "Y", "Z">>
LowerChars ==
    <<"a", "b", "c", "d", "e", "f", "g", "h", "i", "j", "k", "l", "m",
      "n", "o", "p", "q", "r", "s", "t", "u", "v", "w", "x", "y", "z">>
Digits == {"0", "1", "2", "3", "4", "5", "6", "7", "8", "9"}

\* str.lower, character by character.
LowerChar(ch) ==
    IF \E i \in DOMAIN UpperChars : UpperChars[i] = ch
    THEN LowerChars[CHOOSE i \in DOMAIN UpperChars : UpperChars[i] = ch]
    ELSE ch
LowerStr(d) == [i \in DOMAIN d |-> LowerChar(d[i])]

IsSpace(ch) == ch = " "
\* The character class [A-Za-z0-9\s&'] of the two patterns.
InClass(ch) ==
    \/ ch \in Range(UpperChars) \/ ch \in Range(LowerChars) \/ ch \in Digits
    \/ IsSpace(ch) \/ ch = "&" \/ ch = "'"

\* str.strip
RECURSIVE Strip(_)
Strip(d) ==
    IF d = <<>> THEN d
    ELSE IF IsSpace(Head(d)) THEN Strip(Tail(d))
    ELSE IF IsSpace(d[Len(d)]) THEN Strip(SubSeq(d, 1, Len(d) - 1))
    ELSE d

\* The last index of the run of characters from g on that satisfy the class
\* (g - 1 when d[g] does not).
RECURSIVE ClassRunEnd(_, _)
ClassRunEnd(d, g) ==
    IF g <= Len(d) /\ InClass(d[g]) THEN ClassRunEnd(d, g + 1) ELSE g - 1

RECURSIVE SpaceRunEnd(_, _)
SpaceRunEnd(d, g) ==
    IF g <= Len(d) /\ IsSpace(d[g]) THEN SpaceRunEnd(d, g + 1) ELSE g - 1

\* The end of the group [class]+(?:\s*,\s*[class]+)* that starts at g.
RECURSIVE GroupEnd(_, _)
GroupEnd(d, g) ==
    LET k == ClassRunEnd(d, g)
    IN IF k + 2 <= Len(d) /\ d[k + 1] = "," /\ InClass(d[k + 2])
       THEN GroupEnd(d, k + 2)
       ELSE k

\* The start of the group when the pattern <prep>\s+(group) matches at i, or 0:
\* the greedy \s+ takes the whole run of spaces, and gives the last one back to
\* the group when no character of the class follows the run.
GroupStart(d, prep, i) ==
    IF i + 2 <= Len(d) /\ SubSeq(d, i, i + 1) = prep /\ IsSpace(d[i + 2])
    THEN LET e == SpaceRunEnd(d, i + 2)
         IN IF e + 1 <= Len(d) /\ InClass(d[e + 1]) THEN e + 1
            ELSE IF e > i + 2 THEN e
            ELSE 0
    ELSE 0

\* re.search(pattern, description): group(1) of the leftmost match, or None.
PatternSearch(d, prep) ==
    LET hits == {i \in DOMAIN d : GroupStart(d, prep, i) # 0}
    IN IF hits = {} THEN None
       ELSE LET i == CHOOSE i \in hits : \A j \in hits : i <= j
                g == GroupStart(d, prep, i)
            IN [kind |-> "match", group |-> SubSeq(d, g, GroupEnd(d, g))]

\* str.split(): the words between runs of spaces.
RECURSIVE SplitWords(_)
SplitWords(d) ==
    IF d = <<>> THEN <<>>
    ELSE IF IsSpace(Head(d)) THEN SplitWords(Tail(d))
    ELSE LET ends == {i \in DOMAIN d : IsSpace(d[i])}
             e == IF ends = {} THEN Len(d) + 1
                  ELSE CHOOSE i \in ends : \A j \in ends : i <= j
         IN <<SubSeq(d, 1, e - 1)>> \o SplitWords(SubSeq(d, e, Len(d)))

skip_terms ==
    <<<<"b", "r", "e", "a", "k", "f", "a", "s", "t">>,
      <<"l", "u", "n", "c", "h">>,
      <<"d", "i", "n", "n", "e", "r">>,
      <<"c", "o", "f", "f", "e", "e", " ", "b", "r", "e", "a", "k">>,
      <<"m", "e", "e", "t", "i", "n", "g">>,
      <<"c", "a", "l", "l">>,
      <<"r", "u", "n">>,
      <<"p", "h", "o", "n", "e", " ", "c", "a", "l", "l">>,
      <<"z", "o", "o", "m">>,
      <<"o", "n", "l", "i", "n", "e">>,
      <<"v", "i", "r", "t", "u", "a", "l">>>>
venue_terms ==
    <<<<"p", "u", "b">>,
      <<"r", "e", "s", "t", "a", "u", "r", "a", "n", "t">>,
      <<"c", "a", "f", "Ã", "©">>,
      <<"c", "a", "f", "e">>,
      <<"b", "a", "r">>,
      <<"h", "o", "t", "e", "l">>,
      <<"o", "f", "f", "i", "c", "e">>,
      <<"c", "e", "n", "t", "e", "r">>,
      <<"c", "e", "n", "t", "r", "e">>>>

\* A found location: the characters of the str the function returns.
Chars(d) == [kind |-> "str", chars |-> d]

\* extract_location_from_description: the loop over skip_terms.
IsGenericActivity(lower_desc) ==
    \E t \in DOMAIN skip_terms :
        /\ Contains(lower_desc, skip_terms[t])
        /\ ~Contains(lower_desc, <<"a", "t", " ">>)
        /\ ~Contains(lower_desc, <<"i", "n", " ">>)

\* extract_location_from_description on the characters of a description.
ExtractLocation(description) ==
    LET lower_desc == LowerStr(description)
        at_match == PatternSearch(description, <<"a", "t">>)
        in_match == PatternSearch(description, <<"i", "n">>)
        words == SplitWords(description)
    IN IF IsGenericActivity(lower_desc) THEN None
       ELSE IF at_match # None THEN Chars(Strip(at_match.group))
       ELSE IF in_match # None THEN Chars(Strip(in_match.group))
       ELSE IF \E w \in DOMAIN words : \E t \in DOMAIN venue_terms :
                  Contains(LowerStr(words[w]), venue_terms[t])
            THEN Chars(description)
       ELSE IF "@" \in Range(description)
            THEN LET first == CHOOSE i \in DOMAIN description :
                                 description[i] = "@"
                                 /\ \A j \in 1..(i - 1) : description[j] # "@"
                     later == {i \in DOMAIN description : i > first /\ description[i] = "@"}
                     stop == IF later = {} THEN Len(description) + 1
                             ELSE CHOOSE i \in later : \A j \in later : i <= j
                 IN Chars(Strip(SubSeq(description, first + 1, stop - 1)))
       ELSE None

\* The words the descriptions are written with, and their spelling.
Vocabulary == {"Meeting", "Run", "Morning", "at", "in", "Martin", "Smith", "Chat", "Pub", "@Hall"}
Spell(word) ==
    CASE word = "Meeting" -> <<"M", "e", "e", "t", "i", "n", "g">>
      [] word = "Run" -> <<"R", "u", "n">>
      [] word = "Morning" -> <<"M", "o", "r", "n", "i", "n", "g">>
      [] word = "at" -> <<"a", "t">>
      [] word = "in" -> <<"i", "n">>
      [] word = "Martin" -> <<"M", "a", "r", "t", "i", "n">>
      [] word = "Smith" -> <<"S", "m", "i", "t", "h">>
      [] word = "Chat" -> <<"C", "h", "a", "t">>
      [] word = "Pub" -> <<"P", "u", "b">>
      [] word = "@Hall" -> <<"@", "H", "a", "l", "l">>
      [] word = "Breakfast" -> <<"B", "r", "e", "a", "k", "f", "a", "s", "t">>
      [] word = "The" -> <<"T", "h", "e">>
      [] word = "Club" -> <<"C", "l", "u", "b">>
      [] word = "Lunch" -> <<"L", "u", "n", "c", "h">>
      [] word = "Eagle" -> <<"E", "a", "g", "l", "e">>

\* The words joined by single spaces.
RECURSIVE JoinWords(_)
JoinWords(words) ==
    IF words = <<>> THEN <<>>
    ELSE IF Len(words) = 1 THEN Spell(words[1])
    ELSE Spell(words[1]) \o <<" ">> \o JoinWords(Tail(words))

\* The descriptions: up to MaxWords words of the vocabulary, and the two of the
\* example calendar that name a place.
Descriptions ==
    (SeqsUpTo(Vocabulary, MaxWords) \ {<<>>})
    \cup {<<"Breakfast", "at", "The", "Breakfast", "Club">>, <<"Lunch", "at", "The", "Eagle">>}

InitExtract ==
    /\ InitWorkflow
    /\ par = NoPar
    /\ \E words \in Descriptions :
          fn = [kind |-> "extract_location_from_description", pc |-> "call",
                words |-> words, description |-> JoinWords(words), location |-> None]

\* process_calendar_data calls extract_location_from_description(entry["description"]).
ExtractCall ==
    /\ fn.pc = "call"
    /\ fn' = [fn EXCEPT !.pc = "returned", !.location = ExtractLocation(fn.description)]
    /\ UNCHANGED <<par, env, pc, run, args, ctxs, agents, cache, speaker, phase, rounds, replies,
                   used, result, trace>>

NextExtract == ExtractCall

SpecExtract == InitExtract /\ [][NextExtract]_vars

\* ------------------------------------- direct calls of the handler functions

\* The four functions setup_context_handlers defines and registers.
HandlerNames ==
    {"is_restaurant_selection", "update_selected_restaurants", "is_route_plan",
     "update_route_plan"}

\* The numbers of positional arguments of a call (*args).
ArgCounts == 0..MaxArgs

\* The Context and the agents when setup_context_handlers returns in a first
\* run, and the same after the Select handler stored a selection for lunch.
Registered ==
    LET a == CHOOSE x \in RunArgChoices : x.requested_meals = List(<<"lunch">>)
        cal == CHOOSE x \in RunCalendars : x.readable
        nearby == CHOOSE x \in RunNearby : TRUE
        c == get_cambridge_restaurant_data(
                 process_calendar_data(Update(init_workflow_context, context_updates(a)), cal),
                 "found", nearby)
    IN [ctxs |-> [r \in 1..MaxRuns |-> IF r = 1 THEN c ELSE NoContext],
        agents |-> [create_agents EXCEPT ![Selector].reply_funcs = <<1>>,
                                         ![Planner].reply_funcs = <<1>>,
                                         ![Selector].system_message = SelectorMessage(c)]]

PriorSelection ==
    CHOOSE m \in RestaurantSelections :
        /\ m.selected_meals = <<"lunch">>
        /\ m.lunch_restaurant # None

HandlerStates ==
    {Registered, update_selected_restaurants(Registered, 1, 3, PriorSelection)}

InitHandlers ==
    /\ pc = "handlers"
    /\ run = 1
    /\ args = CHOOSE x \in RunArgChoices : x.requested_meals = List(<<"lunch">>)
    /\ \E st \in HandlerStates, name \in HandlerNames, nargs \in ArgCounts,
          message \in AllReplies :
          /\ ctxs = st.ctxs
          /\ agents = st.agents
          /\ fn = [kind |-> "handler", pc |-> "call", name |-> name, nargs |-> nargs,
                   message |-> message, before |-> st.ctxs[1], returned |-> None]
    /\ cache = "dir"
    /\ speaker = "none"
    /\ phase = "idle"
    /\ rounds = 0
    /\ replies = NoReplies
    /\ used = NoMessages
    /\ result = None
    /\ trace = <<>>
    /\ env = NoEnv
    /\ par = NoPar

\* The call of the function: a check function returns a bool, an update handler
\* returns None and acts on the Context and the agents it closes over.
CallHandler ==
    /\ fn.pc = "call"
    /\ LET st == [ctxs |-> ctxs, agents |-> agents]
           after ==
               CASE fn.name = "update_selected_restaurants" ->
                        update_selected_restaurants(st, 1, fn.nargs, fn.message)
                 [] fn.name = "update_route_plan" ->
                        update_route_plan(st, 1, fn.nargs, fn.message)
                 [] OTHER -> st
           returned ==
               CASE fn.name = "is_restaurant_selection" ->
                        [kind |-> "bool", v |-> is_restaurant_selection(fn.nargs, fn.message)]
                 [] fn.name = "is_route_plan" ->
                        [kind |-> "bool", v |-> is_route_plan(fn.nargs, fn.message)]
                 [] OTHER -> None
       IN /\ ctxs' = after.ctxs
          /\ agents' = after.agents
          /\ fn' = [fn EXCEPT !.pc = "returned", !.returned = returned]
    /\ UNCHANGED <<par, env, pc, run, args, cache, speaker, phase, rounds, replies, used,
                   result, trace>>

NextHandlers == CallHandler

SpecHandlers == InitHandlers /\ [][NextHandlers]_vars

\* ----------------------------------------------------------------- claims

CurCtx == ctxs[run]
HasCtx == run >= 1 /\ ctxs[run] # NoContext

Has(e) == \E i \in DOMAIN trace : trace[i] = e
Index(e) == IF Has(e) THEN CHOOSE i \in DOMAIN trace :
                               trace[i] = e /\ \A j \in 1..(i - 1) : trace[j] # e
            ELSE 0

IsPrefix(s, t) == Len(s) <= Len(t) /\ \A i \in DOMAIN s : s[i] = t[i]

\* The invocations and replies of the stages in the trace, in order.
RECURSIVE ChatEvents(_)
ChatEvents(t) ==
    IF t = <<>> THEN <<>>
    ELSE IF Head(t) \in AgentNames \cup {"reply"}
         THEN <<Head(t)>> \o ChatEvents(Tail(t))
         ELSE ChatEvents(Tail(t))

StageOrder == <<Selector, "reply", Planner, "reply", Companion, "reply">>

\* C1: in every run the stages are invoked in the order Select, Plan, Present: an
\* invocation follows the reply of the stage before, one stage at most is
\* executing, no stage is entered again, and the run is over exactly when
\* Present has replied.
C1_StagesInFixedOrder ==
    LET ev == ChatEvents(trace)
    IN /\ IsPrefix(ev, StageOrder)
       /\ (pc = "done") <=> (ev = StageOrder)
       /\ phase = "executing" <=> (Len(ev) % 2 = 1 /\ pc = "chat")
       /\ phase = "executing" => speaker = ev[Len(ev)]

C1_Witness ==
    /\ pc = "done"
    /\ ChatEvents(trace) = StageOrder
    /\ replies[Selector].kind = "handoff"
    /\ replies[Planner].kind = "RoutePlan"

\* C2: when Select produced a RestaurantSelection, the Context holds its
\* selected_meals and its venues before Plan is invoked; when Plan produced a
\* RoutePlan, the Context's route_plan holds it before Present is invoked.
C2_OutputInContextBeforeNextStage ==
    /\ (Has(Planner) /\ replies[Selector].kind = "RestaurantSelection") =>
          /\ "selected_meals" \in DOMAIN CurCtx
          /\ CurCtx.selected_meals = replies[Selector].selected_meals
          /\ \A m \in Meals :
                (m \in Range(replies[Selector].selected_meals)
                 /\ RestaurantField(replies[Selector], m) # None) =>
                    /\ m \in DOMAIN CurCtx.selected_restaurants
                    /\ CurCtx.selected_restaurants[m] = RestaurantField(replies[Selector], m)
    /\ (Has(Companion) /\ replies[Planner].kind = "RoutePlan") =>
          CurCtx.route_plan = replies[Planner]

\* The instruction text of stage a rendered from Context c.
RenderedFor(a, c) ==
    CASE a = Selector -> SelectorMessage(c)
      [] a = Planner ->
            PlannerMessage(Get(c, "selected_meals", <<>>), c.selected_restaurants, c)
      [] a = Companion ->
            IF c.route_plan # None THEN CompanionMessage(c.route_plan, c) ELSE NoMessage

\* C3: while a stage's model call is in flight, the system message it was
\* issued with is the one rendered from the Context, not the static text the
\* agent was created with.
C3_InstructionsRenderedFromContext ==
    phase = "executing" =>
        /\ used[speaker] # StaticMessage(speaker)
        /\ used[speaker] = RenderedFor(speaker, CurCtx)

\* C4: the keys of selected_restaurants are requested meal tags, in every state.
C4_SelectedKeysRequested ==
    HasCtx => DOMAIN CurCtx.selected_restaurants \subseteq Range(CurCtx.requested_meals)

\* C5: route_plan is non-null only once the Plan stage has replied in this run
\* (with the RoutePlan that is stored); before that it is None.
C5_RoutePlanOnlyAfterPlan ==
    HasCtx =>
        (CurCtx.route_plan # None =>
            /\ replies[Planner].kind = "RoutePlan"
            /\ CurCtx.route_plan = replies[Planner])

C5_Witness ==
    /\ HasCtx
    /\ CurCtx.route_plan # None
    /\ speaker = Companion

\* C6: Plan is invoked only after Select produced a RestaurantSelection, and
\* Present only after Plan produced a RoutePlan: free text never hands off.
C6_HandoffOnlyAfterStructuredResult ==
    /\ Has(Planner) => replies[Selector].kind = "RestaurantSelection"
    /\ Has(Companion) => replies[Planner].kind = "RoutePlan"

\* C7: Present is not invoked, and no narrative is returned, while route_plan is
\* None or the Select stage has not written its selection to the Context.
C7_NoPresentOnIncompleteContext ==
    (Has(Companion) \/ (pc = "done" /\ result # None)) =>
        /\ CurCtx.route_plan # None
        /\ "selected_meals" \in DOMAIN CurCtx

\* C8: from the creation of a run's Context to the start of its chat, after any
\* earlier runs (with the same agents or new ones), selected_restaurants is
\* empty, route_plan is None, and the Context holds no key or value that a run
\* before wrote.
C8_FreshContextEachRun ==
    /\ pc \in {"calendar", "catalog", "setup_handlers", "selector_message", "pattern"} =>
          /\ CurCtx.selected_restaurants = EmptyDict
          /\ CurCtx.route_plan = None
          /\ "selected_meals" \notin DOMAIN CurCtx
    /\ pc = "calendar" =>
          /\ "calendar_entries" \notin DOMAIN CurCtx
          /\ CurCtx.calendar_locations = <<>>
          /\ CurCtx.existing_locations = List(<<>>)
          /\ CurCtx.restaurants_with_locations = <<>>
          /\ CurCtx.restaurant_categories = <<>>
          /\ CurCtx.restaurant_count = 0

C8_Witness ==
    /\ run = 2
    /\ pc = "calendar"
    /\ ctxs[1] # NoContext
    /\ ctxs[1].route_plan # None
    /\ ctxs[1].selected_restaurants # EmptyDict
    /\ agents[Selector].reply_funcs = <<1>>

RunStarted ==
    \E e \in {"init_context", "process_calendar_data", "get_cambridge_restaurant_data",
              Selector, Planner, Companion} : Has(e)

\* C9: in every run the agents are reset and ./.cache is purged first: before the
\* Context is created and before any geocoding, catalog or stage call; from the
\* return of clear_cache to the first reply of a stage there is no .cache
\* directory and no agent holds a conversation.
C9_ResetAndPurgeFirst ==
    /\ RunStarted => (Index("reset_agents") = 1 /\ Index("clear_cache") = 2)
    /\ (Has("clear_cache") /\ ~Has("reply")) =>
          /\ cache = "absent"
          /\ \A a \in AgentNames : agents[a].history = 0

C9_Witness ==
    /\ run = 2
    /\ pc = "init_context"
    /\ cache = "absent"
    /\ agents[Planner].reply_funcs = <<1>>
    /\ ctxs[1] # NoContext
    /\ ctxs[1].route_plan # None

\* C10: when the Select instructions are built, and when Select is invoked,
\* Location Extraction and Catalog Building have both returned, in that order,
\* and the instructions carry their results as the Context holds them.
C10_LocatedAndCatalogedBeforeSelect ==
    /\ (Has("update_selector_message") \/ Has(Selector)) =>
          /\ 0 < Index("process_calendar_data")
          /\ Index("process_calendar_data") < Index("get_cambridge_restaurant_data")
          /\ Index("get_cambridge_restaurant_data") < Index("update_selector_message")
          /\ "calendar_entries" \in DOMAIN CurCtx
          /\ CurCtx.existing_locations.kind = "str"
    /\ Has(Selector) => Index("update_selector_message") < Index(Selector)
    /\ pc = "pattern" =>
          /\ agents[Selector].system_message.existing_locations = CurCtx.existing_locations
          /\ agents[Selector].system_message.restaurants_with_locations
                = CurCtx.restaurants_with_locations
          /\ agents[Selector].system_message.restaurant_count = CurCtx.restaurant_count

C10_Witness ==
    /\ phase = "executing"
    /\ speaker = Selector
    /\ CurCtx.calendar_entries # <<>>
    /\ CurCtx.restaurants_with_locations # <<>>

\* ------------------------------------------- claims on location extraction

\* The calendar entries read in this run, once Location Extraction returned.
Located == Has("process_calendar_data")
Entries == env.calendar.entries
Anchors == CurCtx.calendar_entries

\* An entry whose description names a place.
LocationBearing(entry) == extract_location_from_description(entry.description) # None
\* A location-bearing entry whose geocode request is answered with a first
\* match that carries lat and lon.
LookupSucceeds(entry) == LocationBearing(entry) /\ entry.geo = "match"
LookupFails(entry) == LocationBearing(entry) /\ entry.geo # "match"

\* C11: a run fails only in a stage: a failure of Location Extraction or of
\* Catalog Building (no match, malformed response, transport error) leaves an
\* empty anchor list or an empty catalog, and the run goes on to Select.
C11_ExtractionFailuresNeverFailRun ==
    /\ pc = "failed" => Has(Selector)
    /\ (pc = "setup_handlers" /\ env.city # "found") =>
          CurCtx.restaurants_with_locations = <<>>

\* C12: the anchors are the entries whose lookup succeeds, in the calendar's
\* order: an entry whose lookup fails is skipped alone, whatever comes before or
\* after it, and Location Extraction returns to the catalog step.
C12_FailedLookupSkipsEntryAlone ==
    Located =>
        LET ok == SelectSeq(Entries, LookupSucceeds)
        IN /\ Len(Anchors) = Len(ok)
           /\ \A i \in DOMAIN ok :
                 /\ Anchors[i].description = ok[i].description
                 /\ Anchors[i].time = <<ok[i].start_time, ok[i].end_time>>
           /\ Len(trace) = Index("process_calendar_data") => pc = "catalog"

C12_Witness ==
    /\ Located
    /\ pc = "catalog"
    /\ Len(Entries) = 2
    /\ LookupFails(Entries[1])
    /\ Entries[1].geo = "error"
    /\ LookupSucceeds(Entries[2])
    /\ Len(Anchors) = 1

NumLocationBearing == Cardinality({i \in DOMAIN Entries : LocationBearing(Entries[i])})

StartMinutes(t) ==
    CASE t = "07:30" -> 7 * 60 + 30
      [] t = "08:30" -> 8 * 60 + 30
      [] t = "12:30" -> 12 * 60 + 30

\* C15: whatever the order of the calendar's entries, the anchors are in the
\* order of their start times, and each carries a latitude and a longitude.
C15_AnchorsChronological ==
    Located =>
        /\ \A i, j \in DOMAIN Anchors :
              i < j => StartMinutes(Anchors[i].time[1]) <= StartMinutes(Anchors[j].time[1])
        /\ \A i \in DOMAIN Anchors :
              {"latitude", "longitude"} \subseteq DOMAIN Anchors[i]

\* ---------------------------------------------------- claims on the catalog

CatalogKeys == {"restaurants_with_locations", "restaurant_count", "restaurant_categories"}
Cataloged == Has("get_cambridge_restaurant_data")

\* C16: once Catalog Building has returned, no later step of the run changes
\* restaurants_with_locations, restaurant_count or restaurant_categories, and
\* the catalog builder is not called a second time.
C16_CatalogFrozenAfterBuild ==
    [][(Cataloged /\ run' = run) =>
          /\ \A k \in CatalogKeys : ctxs'[run][k] = ctxs[run][k]
          /\ Cardinality({i \in DOMAIN trace' :
                             trace'[i] = "get_cambridge_restaurant_data"}) = 1]_vars

C16_Witness ==
    /\ pc = "done"
    /\ Cataloged
    /\ CurCtx.restaurants_with_locations # <<>>
    /\ CurCtx.restaurant_count = 1
    /\ "selected_meals" \in DOMAIN CurCtx
    /\ CurCtx.route_plan # None

\* The subcategories of the whitelist, in any spelling of their letters' case
\* that the responses draw from.
IsFoodSubcategory(sc) ==
    sc \in {"restaurant", "pub", "bar", "cafe", "fast_food", "bistro", "food_court", "Pub"}
HasNameTag(place) == "tags" \in DOMAIN place /\ "name" \in DOMAIN place.tags

\* The places of the response that belong in the catalog, by position.
Qualifying ==
    {ij \in (DOMAIN env.nearby) \X (1..MaxPlaces) :
        /\ ij[2] \in DOMAIN env.nearby[ij[1]].places
        /\ IsFoodSubcategory(env.nearby[ij[1]].subcategory)
        /\ HasNameTag(env.nearby[ij[1]].places[ij[2]])}

CatalogEntry(ij) ==
    LET sub == env.nearby[ij[1]]
        place == sub.places[ij[2]]
    IN [name |-> place.tags.name, type |-> sub.subcategory,
        latitude |-> place.latitude, longitude |-> place.longitude, tags |-> place.tags]

\* C17: the catalog holds exactly the places of the response under a
\* whitelisted subcategory (whatever its case) that carry a name tag: one entry
\* for each, with name, type, latitude, longitude and tags, and no other entry.
C17_CatalogIsNamedFoodPlaces ==
    (Cataloged /\ env.city = "found") =>
        LET catalog == CurCtx.restaurants_with_locations
        IN /\ Len(catalog) = Cardinality(Qualifying)
           /\ \A ij \in Qualifying : \E k \in DOMAIN catalog : catalog[k] = CatalogEntry(ij)
           /\ \A k \in DOMAIN catalog : \E ij \in Qualifying : catalog[k] = CatalogEntry(ij)

C17_Witness ==
    /\ Cataloged
    /\ env.city = "found"
    /\ Len(env.nearby) = 2
    /\ env.nearby[1].subcategory = "bank"
    /\ env.nearby[1].places # <<>>
    /\ HasNameTag(env.nearby[1].places[1])
    /\ env.nearby[2].subcategory = "Pub"
    /\ Len(CurCtx.restaurants_with_locations) = 1
    /\ CurCtx.restaurants_with_locations[1].type = "Pub"

\* ------------------------------------------------ claims on Context updates

\* The keys of Context h that a step changes or adds.
Changed(h) ==
    {k \in (DOMAIN ctxs[h]) \cup (DOMAIN ctxs'[h]) :
        \/ k \notin DOMAIN ctxs[h]
        \/ k \notin DOMAIN ctxs'[h]
        \/ ctxs'[h][k] # ctxs[h][k]}

StepIs(e) == trace' = Append(trace, e)

\* C18: an update changes only the keys of its mapping and replaces their whole
\* value: the reply of Select changes at most selected_restaurants and
\* selected_meals, and selected_restaurants becomes the dict built from the
\* reply, with no entry of the dict before; the reply of Plan changes at most
\* route_plan; the reply of Present, nothing; Location Extraction and Catalog
\* Building change only their own keys.
C18_UpdateIsShallowAndFramed ==
    [][\A h \in 1..MaxRuns :
          (ctxs[h] # NoContext /\ ctxs'[h] # NoContext) =>
             /\ (StepIs("reply") /\ speaker = Selector) =>
                   /\ Changed(h) \subseteq {"selected_restaurants", "selected_meals"}
                   /\ "selected_restaurants" \in Changed(h) =>
                         /\ replies'[Selector].kind = "RestaurantSelection"
                         /\ ctxs'[h].selected_restaurants = SelectedFrom(replies'[Selector])
             /\ (StepIs("reply") /\ speaker = Planner) =>
                   /\ Changed(h) \subseteq {"route_plan"}
                   /\ "route_plan" \in Changed(h) => ctxs'[h].route_plan = replies'[Planner]
             /\ (StepIs("reply") /\ speaker = Companion) => Changed(h) = {}
             /\ StepIs("process_calendar_data") =>
                   Changed(h) \subseteq
                       {"calendar_locations", "calendar_entries", "existing_locations"}
             /\ StepIs("get_cambridge_restaurant_data") => Changed(h) \subseteq CatalogKeys]_vars

C18_Witness ==
    /\ run = 2
    /\ agents[Selector].reply_funcs = <<2, 1>>
    /\ replies[Selector].kind = "RestaurantSelection"
    /\ replies[Selector].selected_meals = <<"breakfast">>
    /\ DOMAIN ctxs[1].selected_restaurants = {"breakfast"}
    /\ DOMAIN ctxs[2].selected_restaurants = {"breakfast"}
    /\ ctxs[1].route_plan # None
    /\ ctxs[1].route_plan.selected_meals = <<"lunch">>

\* C19: within a run, once the Select handler has stored selected_restaurants
\* (and selected_meals) no later step changes them, and once the Plan handler
\* has stored route_plan no later step changes it.
C19_WrittenOnce ==
    [][(run >= 1 /\ run' = run /\ ctxs[run] # NoContext) =>
          /\ "selected_meals" \in DOMAIN ctxs[run] =>
                /\ ctxs'[run].selected_restaurants = ctxs[run].selected_restaurants
                /\ ctxs'[run].selected_meals = ctxs[run].selected_meals
          /\ ctxs[run].route_plan # None =>
                ctxs'[run].route_plan = ctxs[run].route_plan]_vars

C19_Witness ==
    /\ pc = "done"
    /\ replies[Companion].kind = "CompanionOutput"
    /\ "selected_meals" \in DOMAIN CurCtx
    /\ CurCtx.selected_restaurants # EmptyDict
    /\ CurCtx.selected_restaurants = SelectedFrom(replies[Selector])
    /\ CurCtx.route_plan = replies[Planner]

\* C20: a result of Select that names a meal tag outside the requested set is
\* not merged into the Context, and the Plan stage is not invoked after it.
C20_NonConformantSelectionRejected ==
    (HasCtx /\ replies[Selector].kind = "RestaurantSelection"
            /\ ~(Range(replies[Selector].selected_meals) \subseteq Range(CurCtx.requested_meals))) =>
        /\ "selected_meals" \notin DOMAIN CurCtx
        /\ ~Has(Planner)

\* ----------------------------------------------- claims on failure and end

Count(e) == Cardinality({i \in DOMAIN trace : trace[i] = e})

\* C21: once a stage's call has raised, the run has failed: the raise is the
\* last step, no stage is invoked after it, no stage was invoked twice, and no
\* result is returned.
C21_StageErrorIsTerminal ==
    Has("raise") =>
        /\ pc = "failed"
        /\ phase = "idle"
        /\ trace[Len(trace)] = "raise"
        /\ result = None
        /\ \A a \in AgentNames : Count(a) <= 1

C21_Witness ==
    /\ pc = "failed"
    /\ Has(Selector)
    /\ speaker = Planner
    /\ replies[Selector].kind = "RestaurantSelection"
    /\ ~Has(Companion)

\* C22: every run ends in done or failed, the chat takes at most max_rounds
\* turns, and no stage is invoked more than once.
C22_RunTerminates ==
    /\ [](rounds <= max_rounds /\ \A a \in AgentNames : Count(a) <= 1)
    /\ <>(pc \in {"done", "failed"})

C22_Witness ==
    /\ pc = "failed"
    /\ rounds = 2
    /\ speaker = Companion
    /\ trace[Len(trace)] = "raise"

NarrativeFields ==
    {"greeting", "day_overview", "restaurant_highlights", "route_guidance", "closing_remarks"}

\* C23: a run is done only with a CompanionOutput whose five narrative fields
\* are all non-empty.
C23_DoneOnlyWithFullNarrative ==
    pc = "done" =>
        /\ result.kind = "CompanionOutput"
        /\ NarrativeFields \subseteq DOMAIN result
        /\ \A f \in NarrativeFields : result[f] # ""

\* C24: the route_plan of the Context has a non-empty overview and names exactly
\* the meal tags that Select selected.
C24_RoutePlanMergedOnlyIfValid ==
    (HasCtx /\ CurCtx.route_plan # None) =>
        /\ CurCtx.route_plan.route_overview # ""
        /\ "selected_meals" \in DOMAIN CurCtx
        /\ Range(CurCtx.route_plan.selected_meals) = Range(CurCtx.selected_meals)

\* The Select handler has run and the turn is the planner's.
PlanReady ==
    /\ pc = "chat"
    /\ speaker = Planner
    /\ phase = "ready"
    /\ "selected_meals" \in DOMAIN CurCtx

\* The Plan handler has run and the turn is the companion's.
PresentReady ==
    /\ pc = "chat"
    /\ speaker = Companion
    /\ phase = "ready"
    /\ CurCtx.route_plan # None

\* Contexts that differ from c in keys other than selected_meals,
\* selected_restaurants and existing_locations.
OtherwiseChanged(c) ==
    {Update(c, [food_preferences |-> Str("other"), constraints |-> Str("other")]),
     Update(c, [requested_meals |-> <<"dinner">>]),
     Update(c, [route_plan |-> [kind |-> "RoutePlan", route_overview |-> "x",
                                selected_meals |-> <<>>]]),
     Update(c, [restaurant_count |-> 7, restaurants_with_locations |-> <<>>]),
     Update(c, [calendar_entries |-> <<>>, calendar_locations |-> <<>>])}

\* C25: the Plan instructions the Select handler stored are what a rebuild from
\* the Context gives, and a rebuild gives the same text from any Context with the
\* same selected_meals, selected_restaurants and existing_locations.
C25_PlanInstructionsRebuildIdentical ==
    PlanReady =>
        LET text == agents[Planner].system_message
        IN /\ text = [template |-> "DYNAMIC_PLANNER_MESSAGE",
                      selected_meals |-> CurCtx.selected_meals,
                      restaurant_details |-> DetailLines(MealOrder, CurCtx.selected_restaurants),
                      existing_locations |-> CurCtx.existing_locations]
           /\ \A c \in OtherwiseChanged(CurCtx) :
                 PlannerMessage(c.selected_meals, c.selected_restaurants, c) = text

C25_Witness ==
    /\ PlanReady
    /\ CurCtx.selected_restaurants # EmptyDict
    /\ CurCtx.requested_meals # CurCtx.selected_meals
    /\ CurCtx.existing_locations # Str("None")

\* C26: with meal tags that have no venue and with an empty anchor list, the
\* Plan and Present instructions are built: they hold one line for each meal
\* that has a venue and none for the others, and the text "None" for the
\* anchors when there are none.
C26_InstructionsDegradeGracefully ==
    /\ PlanReady =>
          LET text == agents[Planner].system_message
          IN /\ text.template = "DYNAMIC_PLANNER_MESSAGE"
             /\ Len(text.restaurant_details) = Cardinality(DOMAIN CurCtx.selected_restaurants)
             /\ CurCtx.calendar_entries = <<>> => text.existing_locations = Str("None")
    /\ PresentReady =>
          LET text == agents[Companion].system_message
          IN /\ text.template = "DYNAMIC_COMPANION_MESSAGE"
             /\ Len(text.restaurant_details) = Cardinality(DOMAIN CurCtx.selected_restaurants)
             /\ CurCtx.calendar_entries = <<>> =>
                   /\ text.existing_locations = Str("None")
                   /\ text.calendar_entries = <<>>

C26_Witness ==
    /\ PresentReady
    /\ Len(CurCtx.requested_meals) = 2
    /\ CurCtx.selected_restaurants = EmptyDict
    /\ CurCtx.calendar_entries = <<>>
    /\ agents[Companion].system_message.restaurant_details = <<>>

\* C27: a failed run reports the stage that failed and the last Context.
C27_FailureReportsStageAndContext ==
    pc = "failed" =>
        /\ result # None
        /\ "stage" \in DOMAIN result
        /\ "context" \in DOMAIN result

\* ---------------------------------------------- claims on concurrent runs

Started(r) == par.runs[r].pc # "idle"

\* C28: two runs in progress have different Context objects, and a step of one
\* run (a completion handler included) leaves the other run's Context, its
\* agents' instruction texts and its position as they were.
C28_ConcurrentRunsIsolated ==
    [][/\ (Started(1) /\ Started(2)) => par.runs[1].ctx # par.runs[2].ctx
       /\ \A r \in ParRuns :
             (Started(r) /\ par'.last # r) =>
                /\ par'.runs[r] = par.runs[r]
                /\ par'.ctxs[par.runs[r].ctx] = par.ctxs[par.runs[r].ctx]]_vars

C28_Witness ==
    /\ par.runs[1].pc = "chat"
    /\ par.runs[2].pc = "chat"
    /\ par.runs[1].speaker = Planner
    /\ par.runs[2].speaker = Companion
    /\ "selected_meals" \in DOMAIN par.ctxs[par.runs[1].ctx]
    /\ "selected_meals" \in DOMAIN par.ctxs[par.runs[2].ctx]
    /\ par.ctxs[par.runs[1].ctx].selected_meals = <<"lunch">>
    /\ par.ctxs[par.runs[2].ctx].selected_meals = <<"breakfast">>
    /\ par.ctxs[par.runs[2].ctx].route_plan # None
    /\ par.ctxs[par.runs[1].ctx].route_plan = None

\* --------------------------------------------- claims on the console input

AllMeals == <<"breakfast", "lunch", "dinner">>

\* A non-empty list of meal tags without a repeated tag.
IsMealList(l) ==
    /\ l # <<>>
    /\ Range(l) \subseteq {"breakfast", "lunch", "dinner"}
    /\ \A i, j \in DOMAIN l : i # j => l[i] # l[j]

NonNumeric(line) == \E i \in DOMAIN line : line[i] \notin {"1", "2", "3", "4", "5"}
OutOfRangeAt(line, i) == line[i] = "5"
RepeatedAt(line, i) == \E j \in 1..(i - 1) : line[j] = line[i]
FourBefore(line, i) == \E j \in 1..(i - 1) : line[j] = "4"

LineRead == fn.prompts > 0 /\ fn.line # EmptyLine
Returned == fn.pc \in {"returned", "in_context"}

\* What C29 and its amended form share: the list returned is a non-empty list
\* of distinct meal tags; the empty line and a line with choice 4 that is
\* accepted give all three; the GUI starts nothing without a box and otherwise
\* gets its boxes back at the first prompt; and the Context holds the list.
RequestedMealsSound ==
    /\ Returned => IsMealList(fn.requested_meals)
    /\ (Returned /\ (fn.line = EmptyLine \/ "4" \in Range(fn.line))) =>
          fn.requested_meals = AllMeals
    /\ fn.pc = "refused" => (fn.prompts = 0 /\ fn.context = NoContext)
    /\ (fn.source = "gui" /\ fn.prompts > 0) => (Returned /\ fn.prompts = 1)
    /\ fn.pc = "in_context" =>
          /\ fn.context.requested_meals = fn.requested_meals
          /\ IsMealList(fn.context.requested_meals)

\* C29 as stated: a line with a non-numeric token, an out-of-range number or a
\* repeated number is always rejected and the prompt repeated.
C29_BadInputAlwaysRejected ==
    /\ RequestedMealsSound
    /\ (LineRead /\ (\/ NonNumeric(fn.line)
                     \/ \E i \in DOMAIN fn.line : OutOfRangeAt(fn.line, i)
                     \/ \E i \in DOMAIN fn.line : RepeatedAt(fn.line, i))) =>
          fn.pc = "prompt"

\* C29 as amended: a line with a non-numeric token is rejected; a line with an
\* out-of-range or repeated number that no 4 comes before is rejected; and a
\* line whose out-of-range and repeated numbers all come after a 4 is accepted
\* as all three meals.
C29_RequestedMealsValid ==
    /\ RequestedMealsSound
    /\ (LineRead /\ NonNumeric(fn.line)) => fn.pc = "prompt"
    /\ (LineRead /\ ~NonNumeric(fn.line)) =>
          LET bad == {i \in DOMAIN fn.line :
                         OutOfRangeAt(fn.line, i) \/ RepeatedAt(fn.line, i)}
          IN /\ (\E i \in bad : ~FourBefore(fn.line, i)) => fn.pc = "prompt"
             /\ (bad # {} /\ \A i \in bad : FourBefore(fn.line, i)) =>
                   (Returned /\ fn.requested_meals = AllMeals)

C29_Witness ==
    /\ fn.pc = "in_context"
    /\ fn.source = "console"
    /\ fn.prompts = 2
    /\ fn.line = <<"3", "1">>
    /\ fn.context.requested_meals = <<"dinner", "breakfast">>

\* ------------------------------------------ claims on the location phrases

\* The activity words of the denylist that are one word long, and the words of
\* a description in lower case.
ActivityWords ==
    {<<"b", "r", "e", "a", "k", "f", "a", "s", "t">>, <<"l", "u", "n", "c", "h">>,
     <<"d", "i", "n", "n", "e", "r">>, <<"m", "e", "e", "t", "i", "n", "g">>,
     <<"c", "a", "l", "l">>, <<"r", "u", "n">>, <<"z", "o", "o", "m">>,
     <<"o", "n", "l", "i", "n", "e">>, <<"v", "i", "r", "t", "u", "a", "l">>}
IsActivity(word) == LowerStr(Spell(word)) \in ActivityWords
HasActivity(words) == \E i \in DOMAIN words : IsActivity(words[i])
HasPreposition(words) == \E i \in DOMAIN words : words[i] \in {"at", "in"}

\* C30: a description with an activity word of the denylist and without the
\* preposition "at" or "in" gives no location, and "<activity> at X" gives X.
C30_DenylistUnlessPreposition ==
    fn.pc = "returned" =>
        /\ (HasActivity(fn.words) /\ ~HasPreposition(fn.words)) => fn.location = None
        /\ (Len(fn.words) >= 3 /\ IsActivity(fn.words[1]) /\ fn.words[2] = "at") =>
              fn.location = [kind |-> "str",
                             chars |-> JoinWords(SubSeq(fn.words, 3, Len(fn.words)))]

\* ------------------------------------ claims on the places-service requests

\* The requests of this run that a step issued.
RequestsOf(step) == SelectSeq(env.requests, LAMBDA q : q.step = step)

\* The location-bearing entries of the calendar, in its order.
PhraseEntries == SelectSeq(Entries, LocationBearing)
Phrase(entry) == extract_location_from_description(entry.description).v

\* C31: Location Extraction issues one geocode request for each entry with a
\* location phrase, in order, none for the others and none again after a
\* failure; the query is the phrase when it contains "Cambridge" and the phrase
\* followed by ", Cambridge, England" otherwise.
C31_OneQualifiedGeocodePerPhrase ==
    Located =>
        LET sent == RequestsOf("process_calendar_data")
        IN /\ Len(sent) = Len(PhraseEntries)
           /\ \A i \in DOMAIN sent :
                 /\ sent[i].tool = "geocode_address"
                 /\ sent[i].address =
                       IF Phrase(PhraseEntries[i]) = "Cambridge Arms"
                       THEN "Cambridge Arms"
                       ELSE Phrase(PhraseEntries[i]) \o ", Cambridge, England"

C31_Witness ==
    /\ Located
    /\ Len(Entries) = 2
    /\ Entries[1].description = "Dinner at Cambridge Arms"
    /\ Entries[1].geo = "error"
    /\ Entries[2].description = "Morning Run"
    /\ RequestsOf("process_calendar_data")
          = <<[step |-> "process_calendar_data", tool |-> "geocode_address",
               address |-> "Cambridge Arms"]>>

\* C32: Catalog Building issues one geocode request for the city and then at
\* most one nearby-places request, the latter exactly when the geocode gave a
\* location; when it gave none, restaurant_count, restaurant_categories and
\* restaurants_with_locations keep their initial values 0, [] and [].
C32_OneCityGeocodeThenNearby ==
    LET sent == RequestsOf("get_cambridge_restaurant_data")
    IN /\ env.city = "none" => sent = <<>>
       /\ env.city # "none" =>
             /\ Len(sent) \in {1, 2}
             /\ sent[1].tool = "geocode_address"
             /\ sent[1].address = "Cambridge, England"
             /\ Len(sent) = 2 <=> env.city = "found"
             /\ Len(sent) = 2 => sent[2].tool = "find_nearby_places"
       /\ (Cataloged /\ env.city # "found") =>
             /\ CurCtx.restaurant_count = 0
             /\ CurCtx.restaurant_categories = <<>>
             /\ CurCtx.restaurants_with_locations = <<>>

C32_Witness ==
    /\ Cataloged
    /\ pc = "done"
    /\ env.city = "empty"
    /\ Len(RequestsOf("get_cambridge_restaurant_data")) = 1
    /\ CurCtx.restaurant_count = 0

\* --------------------------------------- claims on the handler functions

RightCall(kind) == fn.nargs = 3 /\ fn.message.kind = kind

\* C33: is_restaurant_selection and is_route_plan return true only for three
\* arguments whose third is a RestaurantSelection, respectively a RoutePlan, and
\* an update handler called with another number of arguments or another type
\* of message leaves the Context and every agent's instruction text as they are.
C33_HandlersIgnoreOtherCalls ==
    /\ [](fn.pc = "returned" =>
            /\ (fn.name = "is_restaurant_selection" /\ fn.returned.v) =>
                  RightCall("RestaurantSelection")
            /\ (fn.name = "is_route_plan" /\ fn.returned.v) => RightCall("RoutePlan"))
    /\ [][(/\ fn.pc = "call"
           /\ \/ fn.name = "update_selected_restaurants" /\ ~RightCall("RestaurantSelection")
              \/ fn.name = "update_route_plan" /\ ~RightCall("RoutePlan"))
          => (/\ ctxs' = ctxs
              /\ \A a \in AgentNames :
                    /\ agents'[a].system_message = agents[a].system_message
                    /\ agents'[a].update_state = agents[a].update_state)]_vars

C33_Witness ==
    /\ fn.pc = "returned"
    /\ fn.name = "update_route_plan"
    /\ fn.nargs = 1
    /\ fn.message.kind = "RoutePlan"
    /\ CurCtx.route_plan = None
    /\ CurCtx.selected_restaurants # EmptyDict

AnchorKeys == {"calendar_locations", "calendar_entries", "existing_locations"}

\* C35: on every path of process_calendar_data (unreadable or empty calendar,
\* no location, some locations) the three anchor keys are written in the one
\* update of that step and by no other step; afterwards calendar_locations and
\* calendar_entries list the same anchors in the same order, and
\* existing_locations is "None" exactly when they are empty and has one line per
\* anchor otherwise.
C35_AnchorKeysWrittenTogether ==
    /\ [](HasCtx =>
            IF Located
            THEN /\ AnchorKeys \subseteq DOMAIN CurCtx
                 /\ CurCtx.existing_locations.kind = "str"
                 /\ Len(CurCtx.calendar_locations) = Len(CurCtx.calendar_entries)
                 /\ \A i \in DOMAIN CurCtx.calendar_entries :
                       CurCtx.calendar_locations[i] =
                           [latitude |-> CurCtx.calendar_entries[i].latitude,
                            longitude |-> CurCtx.calendar_entries[i].longitude]
                 /\ CurCtx.existing_locations = Str("None") <=> CurCtx.calendar_entries = <<>>
                 /\ CurCtx.calendar_entries # <<>> =>
                       /\ DOMAIN CurCtx.existing_locations.lines = DOMAIN CurCtx.calendar_entries
                       /\ \A i \in DOMAIN CurCtx.calendar_entries :
                             CurCtx.existing_locations.lines[i].time
                                 = CurCtx.calendar_entries[i].time
            ELSE /\ "calendar_entries" \notin DOMAIN CurCtx
                 /\ CurCtx.calendar_locations = <<>>
                 /\ CurCtx.existing_locations = List(<<>>))
    /\ [][(pc # "calendar" /\ run' = run /\ ctxs[run] # NoContext) =>
             \A k \in AnchorKeys \cap DOMAIN ctxs[run] :
                 k \in DOMAIN ctxs'[run] /\ ctxs'[run][k] = ctxs[run][k]]_vars

C35_Witness ==
    /\ Located
    /\ pc = "done"
    /\ ~env.calendar.readable
    /\ AnchorKeys \subseteq DOMAIN CurCtx
    /\ CurCtx.calendar_entries = <<>>
    /\ CurCtx.existing_locations = Str("None")

\* ---------------------------------------------- claims on the catalog's counts

\* The places of the response in a whitelisted subcategory, named or not, and
\* the whitelisted subcategories of the response in its order.
FoodPlaces ==
    {ij \in (DOMAIN env.nearby) \X (1..MaxPlaces) :
        /\ ij[2] \in DOMAIN env.nearby[ij[1]].places
        /\ IsFoodSubcategory(env.nearby[ij[1]].subcategory)}
FoodSubcategories == SelectSeq(env.nearby, LAMBDA sub : IsFoodSubcategory(sub.subcategory))

\* C36: after Catalog Building restaurant_count is the number of places of the
\* response in whitelisted subcategories, named or not, hence at least the number
\* of entries of restaurants_with_locations, and restaurant_categories has one
\* entry for each whitelisted subcategory of the response.
C36_CountCoversUnnamedPlaces ==
    (Cataloged /\ env.city = "found") =>
        /\ CurCtx.restaurant_count = Cardinality(FoodPlaces)
        /\ CurCtx.restaurant_count >= Len(CurCtx.restaurants_with_locations)
        /\ Len(CurCtx.restaurant_categories) = Len(FoodSubcategories)
        /\ \A i \in DOMAIN FoodSubcategories :
              /\ CurCtx.restaurant_categories[i].subcategory = FoodSubcategories[i].subcategory
              /\ CurCtx.restaurant_categories[i].place_count = Len(FoodSubcategories[i].places)

C36_Witness ==
    /\ Cataloged
    /\ env.city = "found"
    /\ Len(env.nearby) = 2
    /\ env.nearby[1].subcategory = "cafe"
    /\ Len(env.nearby[1].places) = 1
    /\ ~HasNameTag(env.nearby[1].places[1])
    /\ env.nearby[2].subcategory = "bank"
    /\ CurCtx.restaurant_count = 1
    /\ CurCtx.restaurants_with_locations = <<>>
    /\ Len(CurCtx.restaurant_categories) = 1

\* ------------------------------------------ claims on handlers of earlier runs

\* C37: with agents used by several runs, a stage reply is handled by the
\* handlers of the current run alone: no step of a run writes to the Context of
\* an earlier run, and the Plan instructions a Select reply sets are rendered
\* from the current run's Context.
C37_OnlyCurrentRunHandlersAct ==
    [][(run' = run /\ run >= 1) =>
          /\ \A r \in 1..MaxRuns : r # run => ctxs'[r] = ctxs[r]
          /\ (agents'[Planner].system_message # agents[Planner].system_message
              /\ agents'[Planner].system_message.template = "DYNAMIC_PLANNER_MESSAGE") =>
                 agents'[Planner].system_message.existing_locations
                     = ctxs'[run].existing_locations]_vars

\* ------------------------------------------------------- claims on the GUI

\* The planner runs submitted and not finished.
InProgress ==
    fn.submitted + (IF fn.worker \in {"try", "running", "finally"} THEN 1 ELSE 0)

\* C38: in the GUI at most one planner run is in progress; the plan button is
\* disabled while one is; and when a run has ended, by a return or by an
\* exception, sys.stdin and sys.stdout are the objects they were before it and
\* the button is enabled again once the main loop has run the callback.
C38_OneRunAndStreamsRestored ==
    /\ InProgress <= 1
    /\ InProgress >= 1 => fn.plan_button = "disabled"
    /\ fn.worker \in {"idle", "try"} => (fn.stdin = Console /\ fn.stdout = Console)
    /\ fn.worker \in {"running", "finally"} =>
          (fn.original_stdin = Console /\ fn.original_stdout = Console)
    /\ fn.plan_button = "disabled" => (InProgress = 1 \/ fn.after = 1)
    /\ (InProgress = 0 /\ fn.after = 0) => fn.plan_button = "normal"

C38_Witness ==
    /\ fn.kind = "gui"
    /\ fn.clicks = 2
    /\ fn.outcome = "raised"
    /\ fn.worker = "idle"
    /\ fn.after = 0
    /\ fn.plan_button = "normal"
    /\ fn.stdin = Console
    /\ fn.stdout = Console

\* C39: for every non-empty set of ticked boxes the choice string of the GUI
\* makes get_requested_meals return the ticked meals, in the order of the
\* boxes, at the first prompt.
C39_GuiChoiceRoundTrip ==
    (fn.source = "gui" /\ fn.boxes # {}) =>
        /\ fn.prompts <= 1
        /\ fn.prompts = 1 =>
              /\ fn.pc \in {"returned", "in_context"}
              /\ fn.line = GuiLine(fn.boxes)
              /\ fn.requested_meals = get_selected_meals(fn.boxes)
              /\ Range(fn.requested_meals) = fn.boxes

C39_Witness ==
    /\ fn.pc = "returned"
    /\ fn.source = "gui"
    /\ fn.boxes = {"breakfast", "dinner"}
    /\ fn.line = <<"1", "3">>
    /\ fn.prompts = 1
    /\ fn.requested_meals = <<"breakfast", "dinner">>

====
